---- MODULE Spec2Model ----
(***************************************************************************)
(* Model of the kiri renderer core: the generational handle Pool           *)
(* (kiri-core/src/handle.rs) and the Vulkan Device frame scheduler with    *)
(* its deferred-destruction drop lists (kiri-backend/src/vulkan), and the  *)
(* allocators of kiri-core/src/memory.rs and vulkan/uniforms.rs.           *)
(*                                                                         *)
(* Three families of specifications share this module:                     *)
(*   SpecPushRemove / SpecPool : a single Pool driven by its public API    *)
(*   SpecDevice / SpecFrame    : Device begin_frame / end_frame /          *)
(*                               create / destroy / drop with a GPU        *)
(*   SpecDynamic / SpecBump / SpecRing / SpecUniform / SpecTemp :          *)
(*                               one allocator each, driven by its calls   *)
(* A panic (expect / unwrap / assert / index out of bounds) ends the run:  *)
(* the variable that records it disables every action.                     *)
(***************************************************************************)
EXTENDS Integers, Sequences, FiniteSets, TLC

(***************************************************************************)
(* Bounds of the model                                                     *)
(***************************************************************************)
MaxSlots == 2
MaxPush == 3
MaxObjects == 1
MaxFrames == 4
MaxTempPushes == 1
MaxRegion == 6
MaxExtents == 3
MaxCalls == 5
MaxThreadCalls == 4

(***************************************************************************)
(* Program constants, handle.rs                                            *)
(***************************************************************************)
GENERATION_BITS == 12
INDEX_BITS == 32 - GENERATION_BITS
INDEX_MASK == 2 ^ INDEX_BITS - 1
MAX_INDEX == 2 ^ INDEX_BITS - 1
MAX_GENERATION == 2 ^ GENERATION_BITS

VARIABLES
    pool,           \* Pool<T,U>: [hot, cold, generations, empty]
    hstat,          \* history: handle returned by push |-> 0 live, k >= 1 removed
                    \*   (k removes have advanced the generation of its index
                    \*   since, its own included, saturating), -1 drained
    hpay,           \* history: handle returned by push |-> payloads stored for it
    pushed_count,   \* history: number of push calls that returned
    removed_count,  \* history: number of remove calls that returned Some
    last,           \* the last Pool call: [op, h, res, panic]
    pool_panic,     \* TRUE once a Pool call has panicked
    \* ---- Device (kiri-backend/src/vulkan/device.rs) ----
    image_storage,      \* RwLock<Pool<vk::Image, Image>>
    buffer_storage,     \* RwLock<Pool<vk::Buffer, Buffer>>
    current_drop_list,  \* Mutex<DropList>
    frames,             \* [Mutex<Arc<Frame>>; 2]: the Frame held by slot 0 and slot 1
    frames0_lock,       \* the thread inside begin_frame holding frames[0], or 0
    pc,                 \* per thread: the call in progress and its position
    held,               \* per thread: its Arc<Frame> clone: none / recording / submitted
    local,              \* per thread: the item destroy_resource took out of the pool
    gpu_queue,          \* frame numbers submitted to the GPU and not yet completed
    completed,          \* frame numbers whose GPU work has completed
    destroyed,          \* object |-> number of times it was physically destroyed
    frame_count,        \* history: number of begin_frame calls that returned
    next_obj,           \* history: number of objects created
    created_items,      \* history: every device object (memory, image, view, buffer) created
    issued,             \* history: the handles create_buffer / create_image returned
    pending_at,         \* history: object |-> [any, left]: whether a frame was being recorded
                        \*   or in flight at its destroy call, and those the GPU has not
                        \*   completed yet
    dev,                \* "alive", "dropped", or "panic:<call>" once a call has panicked
    \* ---- Allocators (kiri-core/src/memory.rs, vulkan/uniforms.rs) ----
    dynamic,            \* DynamicAllocator: [granularity, blocks]
    dyn_hist,           \* history: [size: the region size given to new, freed: the offsets
                        \* deallocated and not returned by an allocation since]
    ring,               \* RingAllocator: [size, aligment, head]
    bump,               \* BumpAllocator: [size, top, aligment]
    uniform_storage,    \* UniformStorage: [buckets, free_buckets]
    call,               \* the last allocator call: [op, arg, res, panic, pre]
    trace               \* history: the allocator calls since construction, <<op, arg, res>>

poolVars == <<pool, hstat, hpay, pushed_count, removed_count, last, pool_panic>>

devVars == <<image_storage, buffer_storage, current_drop_list, frames, frames0_lock, pc,
             held, local, gpu_queue, completed, destroyed, frame_count, next_obj,
             created_items, issued, pending_at, dev>>

memVars == <<dynamic, dyn_hist, ring, bump, uniform_storage, call, trace>>

vars == <<pool, hstat, hpay, pushed_count, removed_count, last, pool_panic,
          image_storage, buffer_storage, current_drop_list, frames, frames0_lock, pc,
          held, local, gpu_queue, completed, destroyed, frame_count, next_obj,
          created_items, issued, pending_at, dev,
          dynamic, dyn_hist, ring, bump, uniform_storage, call, trace>>

(***************************************************************************)
(* Option<T>: None is the empty sequence, Some(x) the one-element sequence *)
(***************************************************************************)
None == <<>>
Some(x) == <<x>>
Unwrap(o) == o[1]

(***************************************************************************)
(* Handle: a u32 packing generation (high 12 bits) and index (low 20 bits).*)
(* TLC integers are 32-bit signed, so the u32 is kept as its two bit       *)
(* fields <<bits 31..20, bits 19..0>>; two handles are equal exactly when  *)
(* their u32 are.  Handle::new asserts Handle_new_ok before packing.       *)
(***************************************************************************)
Handle_new(index, generation) ==
    <<generation % (2 ^ GENERATION_BITS), index % (2 ^ INDEX_BITS)>>
Handle_new_ok(index, generation) == index < MAX_INDEX /\ generation < MAX_GENERATION
Handle_invalid == <<2 ^ GENERATION_BITS - 1, INDEX_MASK>>
Handle_index(h) == h[2]
Handle_generation(h) == h[1]

(***************************************************************************)
(* Pool.  Slot i of the code is element i + 1 of the sequences.            *)
(***************************************************************************)
Pool_new == [hot |-> <<>>, cold |-> <<>>, generations |-> <<>>, empty |-> <<>>]

InRange(s, i) == i + 1 <= Len(s)
At(s, i) == s[i + 1]
SetAt(s, i, v) == [s EXCEPT ![i + 1] = v]
Front(s) == SubSeq(s, 1, Len(s) - 1)
Back(s) == s[Len(s)]

is_handle_valid(p, h) ==
    /\ Handle_index(h) < Len(p.generations)
    /\ At(p.generations, Handle_index(h)) = Handle_generation(h)

\* Pool::push: result [pool, handle, panic].  On a panic `pool` is
\* the state the call had reached.
Pool_push_oldest(p, hot, cold) ==
    IF p.empty # <<>>
    THEN LET slot == Head(p.empty)
             p1 == [p EXCEPT !.empty = Tail(p.empty)]
         IN  IF ~InRange(p1.hot, slot)
             THEN [pool |-> p1, handle |-> Handle_invalid, panic |-> TRUE]
             ELSE LET p2 == [p1 EXCEPT !.hot = SetAt(p1.hot, slot, Some(hot))]
                  IN  IF ~InRange(p2.cold, slot)
                      THEN [pool |-> p2, handle |-> Handle_invalid, panic |-> TRUE]
                      ELSE LET p3 == [p2 EXCEPT !.cold = SetAt(p2.cold, slot, Some(cold))]
                               g == At(p3.generations, slot)
                           IN  IF Handle_new_ok(slot, g)
                               THEN [pool |-> p3, handle |-> Handle_new(slot, g), panic |-> FALSE]
                               ELSE [pool |-> p3, handle |-> Handle_invalid, panic |-> TRUE]
    ELSE LET index == Len(p.generations)
         \* (the panic at index == u32::MAX is out of reach of MaxSlots)
         IN  IF FALSE
             THEN [pool |-> p, handle |-> Handle_invalid, panic |-> TRUE]
             ELSE LET p1 == [p EXCEPT !.generations = Append(p.generations, 0),
                                      !.hot = Append(p.hot, Some(hot)),
                                      !.cold = Append(p.cold, Some(cold))]
                  IN  IF Len(p1.generations) = Len(p1.hot) /\ Handle_new_ok(index, 0)
                      THEN [pool |-> p1, handle |-> Handle_new(index, 0), panic |-> FALSE]
                      ELSE [pool |-> p1, handle |-> Handle_invalid, panic |-> TRUE]

Pool_push(p, hot, cold) ==
    IF p.empty # <<>>
    THEN LET slot == Back(p.empty)
             p1 == [p EXCEPT !.empty = Front(p.empty)]
         IN  IF ~InRange(p1.hot, slot)
             THEN [pool |-> p1, handle |-> Handle_invalid, panic |-> TRUE]
             ELSE LET p2 == [p1 EXCEPT !.hot = SetAt(p1.hot, slot, Some(hot))]
                  IN  IF ~InRange(p2.cold, slot)
                      THEN [pool |-> p2, handle |-> Handle_invalid, panic |-> TRUE]
                      ELSE LET p3 == [p2 EXCEPT !.cold = SetAt(p2.cold, slot, Some(cold))]
                               g == At(p3.generations, slot)
                           IN  IF Handle_new_ok(slot, g)
                               THEN [pool |-> p3, handle |-> Handle_new(slot, g), panic |-> FALSE]
                               ELSE [pool |-> p3, handle |-> Handle_invalid, panic |-> TRUE]
    ELSE LET index == Len(p.generations)
         \* (the panic at index == u32::MAX is out of reach of MaxSlots)
         IN  IF FALSE
             THEN [pool |-> p, handle |-> Handle_invalid, panic |-> TRUE]
             ELSE LET p1 == [p EXCEPT !.generations = Append(p.generations, 0),
                                      !.hot = Append(p.hot, Some(hot)),
                                      !.cold = Append(p.cold, Some(cold))]
                  IN  IF Len(p1.generations) = Len(p1.hot) /\ Handle_new_ok(index, 0)
                      THEN [pool |-> p1, handle |-> Handle_new(index, 0), panic |-> FALSE]
                      ELSE [pool |-> p1, handle |-> Handle_invalid, panic |-> TRUE]

\* Pool::get: result [res, panic]
Pool_get(p, h) ==
    IF is_handle_valid(p, h)
    THEN LET index == Handle_index(h)
         IN  IF InRange(p.hot, index) /\ At(p.hot, index) # None
                /\ InRange(p.cold, index) /\ At(p.cold, index) # None
             THEN [res |-> Some(<<Unwrap(At(p.hot, index)), Unwrap(At(p.cold, index))>>),
                   panic |-> FALSE]
             ELSE [res |-> None, panic |-> TRUE]
    ELSE [res |-> None, panic |-> FALSE]

\* Pool::get_hot and Pool::get_hot_mut
Pool_get_hot(p, h) ==
    IF is_handle_valid(p, h)
    THEN LET index == Handle_index(h)
         IN  IF InRange(p.hot, index) /\ At(p.hot, index) # None
             THEN [res |-> Some(Unwrap(At(p.hot, index))), panic |-> FALSE]
             ELSE [res |-> None, panic |-> TRUE]
    ELSE [res |-> None, panic |-> FALSE]

\* Pool::get_cold and Pool::get_cold_mut
Pool_get_cold(p, h) ==
    IF is_handle_valid(p, h)
    THEN LET index == Handle_index(h)
         IN  IF InRange(p.cold, index) /\ At(p.cold, index) # None
             THEN [res |-> Some(Unwrap(At(p.cold, index))), panic |-> FALSE]
             ELSE [res |-> None, panic |-> TRUE]
    ELSE [res |-> None, panic |-> FALSE]

\* Pool::replace: result [pool, res, panic]
Pool_replace(p, h, hot, cold) ==
    IF is_handle_valid(p, h)
    THEN LET index == Handle_index(h)
         IN  IF ~InRange(p.hot, index)
             THEN [pool |-> p, res |-> None, panic |-> TRUE]
             ELSE LET oldhot == At(p.hot, index)
                      p1 == [p EXCEPT !.hot = SetAt(p.hot, index, Some(hot))]
                  IN  IF oldhot = None \/ ~InRange(p1.cold, index)
                      THEN [pool |-> p1, res |-> None, panic |-> TRUE]
                      ELSE LET oldcold == At(p1.cold, index)
                               p2 == [p1 EXCEPT !.cold = SetAt(p1.cold, index, Some(cold))]
                           IN  IF oldcold = None
                               THEN [pool |-> p2, res |-> None, panic |-> TRUE]
                               ELSE [pool |-> p2,
                                     res |-> Some(<<Unwrap(oldhot), Unwrap(oldcold)>>),
                                     panic |-> FALSE]
    ELSE [pool |-> p, res |-> None, panic |-> FALSE]

\* Pool::replace_hot
Pool_replace_hot(p, h, hot) ==
    IF is_handle_valid(p, h)
    THEN LET index == Handle_index(h)
         IN  IF ~InRange(p.hot, index)
             THEN [pool |-> p, res |-> None, panic |-> TRUE]
             ELSE LET oldhot == At(p.hot, index)
                      p1 == [p EXCEPT !.hot = SetAt(p.hot, index, Some(hot))]
                  IN  IF oldhot = None
                      THEN [pool |-> p1, res |-> None, panic |-> TRUE]
                      ELSE [pool |-> p1, res |-> Some(Unwrap(oldhot)), panic |-> FALSE]
    ELSE [pool |-> p, res |-> None, panic |-> FALSE]

\* Pool::replace_cold
Pool_replace_cold(p, h, cold) ==
    IF is_handle_valid(p, h)
    THEN LET index == Handle_index(h)
         IN  IF ~InRange(p.cold, index)
             THEN [pool |-> p, res |-> None, panic |-> TRUE]
             ELSE LET oldcold == At(p.cold, index)
                      p1 == [p EXCEPT !.cold = SetAt(p.cold, index, Some(cold))]
                  IN  IF oldcold = None
                      THEN [pool |-> p1, res |-> None, panic |-> TRUE]
                      ELSE [pool |-> p1, res |-> Some(Unwrap(oldcold)), panic |-> FALSE]
    ELSE [pool |-> p, res |-> None, panic |-> FALSE]

\* The generation a slot gets when it is removed
next_generation_stuck(g) == g

\* wrapping_add(1) % MAX_GENERATION; g < MAX_GENERATION, so g + 1 < 2^32
next_generation(g) == (g + 1) % MAX_GENERATION

\* Pool::remove: result [pool, res, panic]
Pool_remove(p, h) ==
    IF is_handle_valid(p, h)
    THEN LET index == Handle_index(h)
             p1 == [p EXCEPT !.generations =
                                 SetAt(p.generations, index,
                                       next_generation(At(p.generations, index))),
                             !.empty = Append(p.empty, index)]
         IN  IF ~InRange(p1.hot, index) \/ At(p1.hot, index) = None
             THEN [pool |-> p1, res |-> None, panic |-> TRUE]
             ELSE LET hotv == Unwrap(At(p1.hot, index))
                      p2 == [p1 EXCEPT !.hot = SetAt(p1.hot, index, None)]
                  IN  IF ~InRange(p2.cold, index) \/ At(p2.cold, index) = None
                      THEN [pool |-> p2, res |-> None, panic |-> TRUE]
                      ELSE [pool |-> [p2 EXCEPT !.cold = SetAt(p2.cold, index, None)],
                            res |-> Some(<<hotv, Unwrap(At(p2.cold, index))>>),
                            panic |-> FALSE]
    ELSE [pool |-> p, res |-> None, panic |-> FALSE]

\* Iter::next and Drain::next, the loop that skips vacant slots
RECURSIVE Iter_skip(_, _)
Iter_skip_none(hot, current) == current

Iter_skip(hot, current) ==
    IF current # Len(hot) /\ At(hot, current) = None
    THEN Iter_skip(hot, current + 1)
    ELSE current

\* Iter::next and Drain::next: result [item, current, panic]
Iter_next(hot, cold, current) ==
    LET c == Iter_skip(hot, current)
    IN  IF c = Len(hot)
        THEN [item |-> None, current |-> c, panic |-> FALSE]
        ELSE IF At(hot, c) = None \/ ~InRange(cold, c) \/ At(cold, c) = None
             THEN [item |-> None, current |-> c, panic |-> TRUE]
             ELSE [item |-> Some(<<Unwrap(At(hot, c)), Unwrap(At(cold, c))>>),
                   current |-> c + 1, panic |-> FALSE]

\* collect(): next() until it returns None; result [items, panic]
RECURSIVE Iter_collect(_, _, _, _)
Iter_collect(hot, cold, current, acc) ==
    LET n == Iter_next(hot, cold, current)
    IN  IF n.panic THEN [items |-> acc, panic |-> TRUE]
        ELSE IF n.item = None THEN [items |-> acc, panic |-> FALSE]
        ELSE Iter_collect(hot, cold, n.current, Append(acc, Unwrap(n.item)))

\* Pool::iter().collect()
Pool_iter(p) == Iter_collect(p.hot, p.cold, 0, <<>>)

\* x - y on usize, y below 2^30: [diff, overflow].  A difference below 0
\* has wrapped: the negative number n stands for usize::MAX + 1 + n.
usize_sub(x, y) == [diff |-> x - y, overflow |-> x >= 0 /\ x - y < 0]

\* Iter::size_hint with the iterator at `current`: result [res, panic],
\* res = Some(<<lower, upper>>).  The subtractions panic on overflow when
\* the build has overflow checks (debug) and wrap otherwise (release).
Iter_size_hint(p, current, overflow_checks) ==
    LET occupied == usize_sub(Len(p.hot), Len(p.empty))
        size == usize_sub(occupied.diff, current)
    IN  IF (occupied.overflow \/ size.overflow) /\ overflow_checks
        THEN [res |-> None, panic |-> TRUE]
        ELSE [res |-> Some(<<size.diff, Some(size.diff)>>), panic |-> FALSE]

\* Pool::drain().collect(): result [pool, items, panic]
Pool_drain(p) ==
    LET d == Iter_collect(p.hot, p.cold, 0, <<>>)
    IN  [pool |-> [p EXCEPT !.hot = <<>>, !.cold = <<>>],
         items |-> d.items, panic |-> d.panic]

(***************************************************************************)
(* Program constants, frame.rs                                             *)
(***************************************************************************)
MAX_TEMP_MEMORY == 16 * 1024 * 1024
ALIGMENT == 256

(***************************************************************************)
(* Align<u32>::align for a power-of-two alignment:                         *)
(* self & !(align - 1) clears the low bits, i.e. subtracts self % align    *)
(***************************************************************************)
align_u32(x, a) == IF x = 0 \/ x % a = 0 THEN x ELSE (x - (x % a)) + a

(***************************************************************************)
(* DropList                                                                *)
(***************************************************************************)
DropList_default ==
    [memory_to_free |-> <<>>, images_to_free |-> <<>>, image_views_to_free |-> <<>>,
     buffers_to_free |-> <<>>, descriptors_to_free |-> <<>>, uniforms_to_free |-> <<>>]

Tag(kind, s) == [i \in 1..Len(s) |-> <<kind, s[i]>>]

\* what Vec::drain(..) leaves in the vector once the iterator is consumed
Vec_drain_keep(v) == v

Vec_drain(v) == <<>>

\* the kinds in another order: memory blocks freed first
DropList_purge_memory_first(dl) ==
    [list |-> DropList_default,
     log |-> Tag("memory", dl.memory_to_free)
             \o Tag("image_view", dl.image_views_to_free)
             \o Tag("image", dl.images_to_free)
             \o Tag("buffer", dl.buffers_to_free)
             \o Tag("descriptor_set", dl.descriptors_to_free)
             \o Tag("uniform", dl.uniforms_to_free)]

\* DropList::purge: result [list, log]; log is what was destroyed, in order
DropList_purge(dl) ==
    [list |-> [memory_to_free |-> Vec_drain(dl.memory_to_free),
               images_to_free |-> Vec_drain(dl.images_to_free),
               image_views_to_free |-> Vec_drain(dl.image_views_to_free),
               buffers_to_free |-> Vec_drain(dl.buffers_to_free),
               descriptors_to_free |-> Vec_drain(dl.descriptors_to_free),
               uniforms_to_free |-> Vec_drain(dl.uniforms_to_free)],
     log |-> Tag("image_view", dl.image_views_to_free)
             \o Tag("image", dl.images_to_free)
             \o Tag("buffer", dl.buffers_to_free)
             \o Tag("memory", dl.memory_to_free)
             \o Tag("descriptor_set", dl.descriptors_to_free)
             \o Tag("uniform", dl.uniforms_to_free)]

\* DropList::drop_image .. DropList::free_uniform: push onto the kind's vector
DropList_drop_image(dl, image) == [dl EXCEPT !.images_to_free = Append(@, image)]

DropList_drop_image_view(dl, view) == [dl EXCEPT !.image_views_to_free = Append(@, view)]

DropList_drop_buffer(dl, buffer) == [dl EXCEPT !.buffers_to_free = Append(@, buffer)]

DropList_free_memory(dl, block) == [dl EXCEPT !.memory_to_free = Append(@, block)]

DropList_free_descriptor_set(dl, descriptor_set) ==
    [dl EXCEPT !.descriptors_to_free = Append(@, descriptor_set)]

DropList_free_uniform(dl, uniform) == [dl EXCEPT !.uniforms_to_free = Append(@, uniform)]

\* every entry of a drop list, tagged with its kind
DropList_items(dl) == DropList_purge(dl).log

\* The raw destroy / free calls purge makes, counted per object
RECURSIVE Destroy(_, _)
Destroy(d, log) ==
    IF log = <<>> THEN d
    ELSE LET x == Head(log)
         IN  Destroy([y \in DOMAIN d \cup {x} |->
                        IF y = x THEN (IF x \in DOMAIN d THEN d[x] + 1 ELSE 1) ELSE d[y]],
                     Tail(log))

\* <Buffer as ToDrop>::to_drop: result [item, list]
Buffer_to_drop(b, dl) ==
    IF b.memory # None
    THEN [item |-> [b EXCEPT !.memory = None],
          list |-> [dl EXCEPT !.memory_to_free = Append(@, Unwrap(b.memory)),
                              !.buffers_to_free = Append(@, b.raw)]]
    ELSE [item |-> b, list |-> dl]

\* the views of an image in the order the HashMap iterates them
RECURSIVE SeqOfSet(_)
SeqOfSet(S) ==
    IF S = {} THEN <<>>
    ELSE LET m == CHOOSE x \in S : \A y \in S : x <= y
         IN  <<m>> \o SeqOfSet(S \ {m})

\* Image::drop_views followed by the rest of <Image as ToDrop>::to_drop
Image_to_drop(im, dl) ==
    LET vs == SeqOfSet(im.views)
        dl1 == [dl EXCEPT !.image_views_to_free =
                              @ \o [i \in 1..Len(vs) |-> <<im.raw, vs[i]>>]]
        im1 == [im EXCEPT !.views = {}]
    IN  IF im1.memory # None
        THEN [item |-> [im1 EXCEPT !.memory = None],
              list |-> [dl1 EXCEPT !.memory_to_free = Append(@, Unwrap(im1.memory)),
                                   !.images_to_free = Append(@, im1.raw)]]
        ELSE [item |-> im1, list |-> dl1]

\* ToDrop::to_drop dispatched on the pool the item came from
to_drop(kind, item, dl) ==
    IF kind = "buffer" THEN Buffer_to_drop(item, dl) ELSE Image_to_drop(item, dl)

\* to_drop of every item of a sequence, in order (Device::drop, for_each)
RECURSIVE to_drop_all(_, _, _)
to_drop_all(kind, items, dl) ==
    IF items = <<>> THEN dl
    ELSE to_drop_all(kind, Tail(items), to_drop(kind, Head(items)[2], dl).list)

(***************************************************************************)
(* Frame                                                                   *)
(***************************************************************************)
\* Frame::new; CommandBuffer::primary creates both fences SIGNALED.
\* `no` is history: the number of the last frame begun on this Frame.
Frame_new(id) ==
    [id |-> id, drop_list |-> DropList_default, temp_top |-> 0,
     main_fence |-> TRUE, present_fence |-> TRUE, temp_memory |-> TRUE, no |-> 0]

\* wait_for_fences(&[present_cb.fence, main_cb.fence], true, u64::MAX) returns
wait_for_fences_nowait(f) == TRUE

wait_for_fences(f) == f.present_fence /\ f.main_fence

\* self.temp_top.store(0, Ordering::Release)
temp_top_store_kept(top) == top

temp_top_store(top) == 0

\* a reset that leaves the drop list alone
Frame_reset_no_purge(f) ==
    [frame |-> [f EXCEPT !.temp_top = temp_top_store(@)], log |-> <<>>]

\* Frame::reset: result [frame, log]
Frame_reset(f) ==
    LET r == DropList_purge(f.drop_list)
    IN  [frame |-> [f EXCEPT !.drop_list = r.list, !.temp_top = temp_top_store(@)],
         log |-> r.log]

\* Frame::free: result [frame, log]
Frame_free(f) ==
    IF f.temp_memory
    THEN LET r == DropList_purge(f.drop_list)
         IN  [frame |-> [f EXCEPT !.temp_memory = FALSE, !.drop_list = r.list], log |-> r.log]
    ELSE [frame |-> f, log |-> <<>>]

(***************************************************************************)
(* Byte counts of push_temp.  A count n is the pair <<n div ALIGMENT,      *)
(* n mod ALIGMENT>>, so that counts of 2^32 and above, which a usize holds *)
(* and a u32 does not, stay within the integers of the model.              *)
(***************************************************************************)
\* 2^32 / ALIGMENT: the number of ALIGMENT-sized units a u32 can count
U32_UNITS == 65536 * (65536 \div ALIGMENT)

bytes_of(n) == <<n \div ALIGMENT, n % ALIGMENT>>

\* `bytes as _` in push_temp: usize to u32, keeping the low 32 bits
as_u32(b) == <<b[1] % U32_UNITS, b[2]>>

\* Frame::allocate, the closure of fetch_update on temp_top (the frame is
\* used by one thread, so the update succeeds on the first pass): x is the
\* cursor, size a u32 byte count.  x + size and the addition inside align
\* are u32 additions: on overflow they panic when the build has overflow
\* checks (debug) and wrap otherwise (release).  Result [res, top, panic].
Frame_allocate(x, size, overflow_checks) ==
    LET lo0 == (x % ALIGMENT) + size[2]
        sum == (x \div ALIGMENT) + size[1] + (lo0 \div ALIGMENT)
        lo == lo0 % ALIGMENT
        \* (x + size) as <<sum % U32_UNITS, lo>>, then .align(ALIGMENT)
        aligned == (sum % U32_UNITS) + (align_u32(lo, ALIGMENT) \div ALIGMENT)
        new_units == aligned % U32_UNITS
        overflow == sum >= U32_UNITS \/ aligned >= U32_UNITS
    IN  IF overflow /\ overflow_checks
        THEN [res |-> None, top |-> x, panic |-> TRUE]
        ELSE IF new_units <= MAX_TEMP_MEMORY \div ALIGMENT
             THEN [res |-> Some(x), top |-> new_units * ALIGMENT, panic |-> FALSE]
             ELSE [res |-> None, top |-> x, panic |-> FALSE]

\* Frame::push_temp of a slice of `bytes` bytes (a usize): result
\* [res, top, panic], res = None for Err(OutOfTempMemory)
Frame_push_temp(x, bytes, overflow_checks) ==
    Frame_allocate(x, as_u32(bytes), overflow_checks)

\* mem::take(&mut current_drop_list): result [taken, left]
mem_take_clone(cur) == [taken |-> cur, left |-> cur]

mem_take(cur) == [taken |-> cur, left |-> DropList_default]

\* std::mem::swap(frame0, frame1) on the two slots
mem_swap_none(fs) == fs

mem_swap(fs) == <<fs[2], fs[1]>>

\* frame0.drop_list.replace(taken): result [frame, log]; the list replaced
\* is dropped without being purged, nothing is destroyed here
drop_list_replace_purging(f, taken) ==
    [frame |-> [f EXCEPT !.drop_list = DropList_default], log |-> DropList_purge(taken).log]

drop_list_replace(f, taken) ==
    [frame |-> [f EXCEPT !.drop_list = taken], log |-> <<>>]

(***************************************************************************)
(* Device                                                                  *)
(***************************************************************************)
\* Two caller threads: every interleaving of two calls on one Device
Threads == {1, 2}
ViewDescs == {1}
TempSizes == {ALIGMENT}

Buffer_new(o) == [raw |-> o, memory |-> Some(o)]
Image_new(o) == [raw |-> o, memory |-> Some(o), views |-> {}]

\* Device::new
DeviceNew ==
    /\ image_storage = Pool_new
    /\ buffer_storage = Pool_new
    /\ current_drop_list = DropList_default
    /\ frames = <<Frame_new(1), Frame_new(2)>>
    /\ frames0_lock = 0
    /\ pc = [t \in Threads |-> "idle"]
    /\ held = [t \in Threads |-> "none"]
    /\ local = [t \in Threads |-> None]
    /\ gpu_queue = <<>>
    /\ completed = {}
    /\ destroyed = <<>>   \* the function with the empty domain
    /\ frame_count = 0
    /\ next_obj = 0
    /\ created_items = {}
    /\ issued = {}
    /\ pending_at = <<>>
    /\ dev = "alive"

\* Arc::get_mut(&mut frames[0]) succeeds: no clone of the Arc is alive.
\* Only begin_frame clones it, so the clones are the references threads hold.
Arc_get_mut_unchecked == TRUE

Arc_get_mut == \A u \in Threads : held[u] = "none"

\* frames whose recording has begun and that are not yet submitted
RecordingFrames == {frames[1].no : u \in {v \in Threads : held[v] = "recording"}}
InFlightFrames == {gpu_queue[i] : i \in 1..Len(gpu_queue)}

(***************************************************************************)
(* Device actions.  A call that takes several locks in turn is one action  *)
(* per critical section; pc[t] is the position of thread t inside it.      *)
(***************************************************************************)
Storage(kind) == IF kind = "buffer" THEN buffer_storage ELSE image_storage

\* Device::create_buffer
CreateBuffer(t) ==
    /\ dev = "alive" /\ pc[t] = "idle"
    /\ next_obj < MaxObjects
    /\ LET o == next_obj + 1
           r == Pool_push(buffer_storage, o, Buffer_new(o))
       IN  /\ buffer_storage' = r.pool
           /\ dev' = IF r.panic THEN "panic:create" ELSE dev
           /\ issued' = IF r.panic THEN issued ELSE issued \cup {<<"buffer", r.handle>>}
           /\ next_obj' = o
           /\ created_items' = created_items \cup {<<"buffer", o>>, <<"memory", o>>}
    /\ UNCHANGED <<image_storage, current_drop_list, frames, frames0_lock, pc, held, local,
                   gpu_queue, completed, destroyed, frame_count, pending_at>>
    /\ UNCHANGED poolVars
    /\ UNCHANGED memVars

\* Device::create_image
CreateImage(t) ==
    /\ dev = "alive" /\ pc[t] = "idle"
    /\ next_obj < MaxObjects
    /\ LET o == next_obj + 1
           r == Pool_push(image_storage, o, Image_new(o))
       IN  /\ image_storage' = r.pool
           /\ dev' = IF r.panic THEN "panic:create" ELSE dev
           /\ issued' = IF r.panic THEN issued ELSE issued \cup {<<"image", r.handle>>}
           /\ next_obj' = o
           /\ created_items' = created_items \cup {<<"image", o>>, <<"memory", o>>}
    /\ UNCHANGED <<buffer_storage, current_drop_list, frames, frames0_lock, pc, held, local,
                   gpu_queue, completed, destroyed, frame_count, pending_at>>
    /\ UNCHANGED poolVars
    /\ UNCHANGED memVars

\* Image::get_or_create_view on an image looked up by handle
GetOrCreateView(t, h, d) ==
    /\ dev = "alive" /\ pc[t] = "idle"
    /\ LET r == Pool_get(image_storage, h)
       IN  /\ ~r.panic /\ r.res # None
           /\ LET im == Unwrap(r.res)[2]
              IN  /\ d \notin im.views
                  /\ image_storage' =
                        [image_storage EXCEPT
                            !.cold = SetAt(@, Handle_index(h),
                                           Some([im EXCEPT !.views = @ \cup {d}]))]
                  /\ created_items' = created_items \cup {<<"image_view", <<im.raw, d>>>>}
    /\ UNCHANGED <<buffer_storage, current_drop_list, frames, frames0_lock, pc, held, local,
                   gpu_queue, completed, destroyed, frame_count, next_obj, issued,
                   pending_at, dev>>
    /\ UNCHANGED poolVars
    /\ UNCHANGED memVars

\* Device::destroy_resource, first statement: storage.write().remove(handle)
DestroyRemove(t, kind, h) ==
    /\ dev = "alive" /\ pc[t] = "idle"
    /\ LET r == Pool_remove(Storage(kind), h)
       IN  /\ IF kind = "buffer"
              THEN buffer_storage' = r.pool /\ UNCHANGED image_storage
              ELSE image_storage' = r.pool /\ UNCHANGED buffer_storage
           /\ dev' = IF r.panic THEN "panic:destroy" ELSE dev
           /\ IF r.res # None
              THEN /\ local' = [local EXCEPT ![t] = Some(<<kind, Unwrap(r.res)[2]>>)]
                   /\ pc' = [pc EXCEPT ![t] = "ds_todrop"]
                   /\ pending_at' =
                        [o \in DOMAIN pending_at \cup {Unwrap(r.res)[2].raw} |->
                            IF o = Unwrap(r.res)[2].raw
                            THEN [any |-> RecordingFrames \cup InFlightFrames # {},
                                  left |-> RecordingFrames \cup InFlightFrames]
                            ELSE pending_at[o]]
              ELSE UNCHANGED <<local, pc, pending_at>>
    /\ UNCHANGED <<current_drop_list, frames, frames0_lock, held, gpu_queue, completed,
                   destroyed, frame_count, next_obj, created_items, issued>>
    /\ UNCHANGED poolVars
    /\ UNCHANGED memVars

\* Device::destroy_resource, second statement:
\* item.to_drop(&mut self.current_drop_list.lock())
DestroyToDrop(t) ==
    /\ dev = "alive" /\ pc[t] = "ds_todrop"
    /\ LET it == Unwrap(local[t])
       IN  current_drop_list' = to_drop(it[1], it[2], current_drop_list).list
    /\ local' = [local EXCEPT ![t] = None]
    /\ pc' = [pc EXCEPT ![t] = "idle"]
    /\ UNCHANGED <<image_storage, buffer_storage, frames, frames0_lock, held, gpu_queue,
                   completed, destroyed, frame_count, next_obj, created_items, issued,
                   pending_at, dev>>
    /\ UNCHANGED poolVars
    /\ UNCHANGED memVars

\* Device::begin_frame: self.frames[0].lock() and Arc::get_mut(..).expect(..)
BeginLock(t) ==
    /\ dev = "alive" /\ pc[t] = "idle"
    /\ frames0_lock = 0
    /\ frame_count < MaxFrames
    /\ IF Arc_get_mut
       THEN /\ frames0_lock' = t
            /\ pc' = [pc EXCEPT ![t] = "bf_wait"]
            /\ UNCHANGED dev
       ELSE /\ dev' = "panic:begin_frame"
            /\ UNCHANGED <<frames0_lock, pc>>
    /\ UNCHANGED <<image_storage, buffer_storage, current_drop_list, frames, held, local,
                   gpu_queue, completed, destroyed, frame_count, next_obj, created_items,
                   issued, pending_at>>
    /\ UNCHANGED poolVars
    /\ UNCHANGED memVars

\* Device::begin_frame: wait_for_fences returns
BeginWait(t) ==
    /\ dev = "alive" /\ pc[t] = "bf_wait"
    /\ wait_for_fences(frames[1])
    /\ pc' = [pc EXCEPT ![t] = "bf_reset"]
    /\ UNCHANGED <<image_storage, buffer_storage, current_drop_list, frames, frames0_lock,
                   held, local, gpu_queue, completed, destroyed, frame_count, next_obj,
                   created_items, issued, pending_at, dev>>
    /\ UNCHANGED poolVars
    /\ UNCHANGED memVars

\* Device::begin_frame: the three allocator locks, frame0.reset(..),
\* frame0.drop_list.replace(mem::take(&mut current)), then Ok(frame0.clone())
\* and the locks are released.  reset touches only the frame, which the
\* thread owns exclusively here, so it is one step with the take.
BeginReset(t) ==
    /\ dev = "alive" /\ pc[t] = "bf_reset"
    /\ LET rs == Frame_reset(frames[1])
           m == mem_take(current_drop_list)
           r == drop_list_replace(rs.frame, m.taken)
       IN  /\ current_drop_list' = m.left
           /\ frames' = [frames EXCEPT ![1] = [r.frame EXCEPT !.no = frame_count + 1]]
           /\ destroyed' = Destroy(destroyed, rs.log \o r.log)
    /\ frame_count' = frame_count + 1
    /\ held' = [held EXCEPT ![t] = "recording"]
    /\ frames0_lock' = 0
    /\ pc' = [pc EXCEPT ![t] = "idle"]
    /\ UNCHANGED <<image_storage, buffer_storage, local, gpu_queue, completed, next_obj,
                   created_items, issued, pending_at, dev>>
    /\ UNCHANGED poolVars
    /\ UNCHANGED memVars

\* Frame::push_temp on the frame being recorded
PushTemp(t, size) ==
    /\ dev = "alive" /\ pc[t] = "idle" /\ held[t] = "recording"
    /\ frames[1].temp_top < MaxTempPushes * ALIGMENT
    /\ frames' = [frames EXCEPT ![1].temp_top = Frame_push_temp(@, bytes_of(size), FALSE).top]
    /\ UNCHANGED <<image_storage, buffer_storage, current_drop_list, frames0_lock, pc, held,
                   local, gpu_queue, completed, destroyed, frame_count, next_obj,
                   created_items, issued, pending_at, dev>>
    /\ UNCHANGED poolVars
    /\ UNCHANGED memVars

\* The caller submits the recorded frame: both fences of the frame are
\* reset and are signaled by the GPU when the submitted work completes.
Submit(t) ==
    /\ dev = "alive" /\ pc[t] = "idle" /\ held[t] = "recording"
    /\ frames' = [frames EXCEPT ![1].main_fence = FALSE, ![1].present_fence = FALSE]
    /\ gpu_queue' = Append(gpu_queue, frames[1].no)
    /\ held' = [held EXCEPT ![t] = "submitted"]
    /\ UNCHANGED <<image_storage, buffer_storage, current_drop_list, frames0_lock, pc, local,
                   completed, destroyed, frame_count, next_obj, created_items, issued,
                   pending_at, dev>>
    /\ UNCHANGED poolVars
    /\ UNCHANGED memVars

\* The GPU completes the oldest submitted frame and signals its fences.
GpuComplete ==
    /\ dev = "alive"
    /\ gpu_queue # <<>>
    /\ LET n == Head(gpu_queue)
       IN  /\ frames' = [s \in 1..2 |->
                            IF frames[s].no = n
                            THEN [frames[s] EXCEPT !.main_fence = TRUE, !.present_fence = TRUE]
                            ELSE frames[s]]
           /\ completed' = completed \cup {n}
           /\ pending_at' = [o \in DOMAIN pending_at |->
                                [pending_at[o] EXCEPT !.left = @ \ {n}]]
    /\ gpu_queue' = Tail(gpu_queue)
    /\ UNCHANGED <<image_storage, buffer_storage, current_drop_list, frames0_lock, pc, held,
                   local, destroyed, frame_count, next_obj, created_items, issued, dev>>
    /\ UNCHANGED poolVars
    /\ UNCHANGED memVars

\* Device::end_frame: drop(frame)
EndDrop(t) ==
    /\ dev = "alive" /\ pc[t] = "idle" /\ held[t] = "submitted"
    /\ held' = [held EXCEPT ![t] = "none"]
    /\ pc' = [pc EXCEPT ![t] = "ef_swap"]
    /\ UNCHANGED <<image_storage, buffer_storage, current_drop_list, frames, frames0_lock,
                   local, gpu_queue, completed, destroyed, frame_count, next_obj,
                   created_items, issued, pending_at, dev>>
    /\ UNCHANGED poolVars
    /\ UNCHANGED memVars

\* Device::end_frame: lock frames[0], Arc::get_mut(..).expect(..), lock
\* frames[1], swap the two Frames
EndSwap(t) ==
    /\ dev = "alive" /\ pc[t] = "ef_swap"
    /\ frames0_lock = 0
    /\ IF Arc_get_mut
       THEN /\ frames' = mem_swap(frames)
            /\ pc' = [pc EXCEPT ![t] = "idle"]
            /\ UNCHANGED dev
       ELSE /\ dev' = "panic:end_frame"
            /\ UNCHANGED <<frames, pc>>
    /\ UNCHANGED <<image_storage, buffer_storage, current_drop_list, frames0_lock, held,
                   local, gpu_queue, completed, destroyed, frame_count, next_obj,
                   created_items, issued, pending_at>>
    /\ UNCHANGED poolVars
    /\ UNCHANGED memVars

\* The caller drops its Arc<Frame> after submitting, without end_frame
DropRef(t) ==
    /\ dev = "alive" /\ pc[t] = "idle" /\ held[t] = "submitted"
    /\ held' = [held EXCEPT ![t] = "none"]
    /\ UNCHANGED <<image_storage, buffer_storage, current_drop_list, frames, frames0_lock,
                   pc, local, gpu_queue, completed, destroyed, frame_count, next_obj,
                   created_items, issued, pending_at, dev>>
    /\ UNCHANGED poolVars
    /\ UNCHANGED memVars

\* <Device as Drop>::drop.  It needs &mut self, so no call is in progress;
\* device_wait_idle returns once the GPU has completed everything submitted.
DeviceDrop ==
    /\ dev = "alive"
    /\ \A t \in Threads : pc[t] = "idle"
    /\ gpu_queue = <<>>
    /\ LET di == Pool_drain(image_storage)
           db == Pool_drain(buffer_storage)
           dl == to_drop_all("buffer", db.items,
                             to_drop_all("image", di.items, DropList_default))
           p == DropList_purge(dl)
           f0 == Frame_free(frames[1])
           f1 == Frame_free(frames[2])
       IN  /\ image_storage' = di.pool
           /\ buffer_storage' = db.pool
           /\ IF Arc_get_mut
              THEN /\ frames' = <<f0.frame, f1.frame>>
                   /\ destroyed' = Destroy(destroyed, p.log \o f0.log \o f1.log)
                   /\ dev' = "dropped"
              ELSE /\ frames' = frames
                   /\ destroyed' = Destroy(destroyed, p.log)
                   /\ dev' = "panic:drop"
    /\ UNCHANGED <<current_drop_list, frames0_lock, pc, held, local, gpu_queue, completed,
                   frame_count, next_obj, created_items, issued, pending_at>>
    /\ UNCHANGED poolVars
    /\ UNCHANGED memVars

(***************************************************************************)
(* Allocators, kiri-core/src/memory.rs.  usize is 64 bits wide; the sizes  *)
(* of this model stay far below 2^31, so no usize operation overflows.     *)
(***************************************************************************)
\* x & !m on the binary digits
RECURSIVE AndNot(_, _)
AndNot(x, m) ==
    IF x = 0 THEN 0
    ELSE (IF m % 2 = 1 THEN 0 ELSE x % 2) + 2 * AndNot(x \div 2, m \div 2)

\* fn align(value, align), memory.rs; the same body as Align<usize>::align
align(value, a) ==
    IF value = 0 \/ value % a = 0 THEN value ELSE AndNot(value, a - 1) + a

\* Vec::insert(i, v) and Vec::remove(i), 0-based
InsertAt(s, i, v) == SubSeq(s, 1, i) \o <<v>> \o SubSeq(s, i + 1, Len(s))
RemoveAt(s, i) == SubSeq(s, 1, i) \o SubSeq(s, i + 2, Len(s))

SetMin(S) == CHOOSE x \in S : \A y \in S : x <= y
SetMax(S) == CHOOSE x \in S : \A y \in S : y <= x

\* Block::Free(BlockData(offset, size)) and Block::Used(BlockData(offset, size))
Free(offset, size) == [tag |-> "Free", offset |-> offset, size |-> size]
Used(offset, size) == [tag |-> "Used", offset |-> offset, size |-> size]

DynamicAllocator_new(size, granularity) ==
    [granularity |-> granularity, blocks |-> <<Free(0, size)>>]

\* the find_* scans: Some(index) of the first (last) match, or None
find_used_block(blocks, offset) ==
    LET S == {i \in 0..(Len(blocks) - 1) :
                 At(blocks, i).tag = "Used" /\ At(blocks, i).offset = offset}
    IN  IF S = {} THEN None ELSE Some(SetMin(S))

find_last_free_block(blocks, size) ==
    LET S == {i \in 0..(Len(blocks) - 1) :
                 At(blocks, i).tag = "Free" /\ At(blocks, i).size >= size}
    IN  IF S = {} THEN None ELSE Some(SetMax(S))

find_first_free_block(blocks, size) ==
    LET S == {i \in 0..(Len(blocks) - 1) :
                 At(blocks, i).tag = "Free" /\ At(blocks, i).size >= size}
    IN  IF S = {} THEN None ELSE Some(SetMin(S))

\* merge_free_blocks, first loop: step back over the Free blocks before index
RECURSIVE merge_back(_, _)
merge_back(blocks, index) ==
    IF index > 0 /\ At(blocks, index - 1).tag = "Free"
    THEN merge_back(blocks, index - 1)
    ELSE index

\* merge_free_blocks, second loop: absorb the Free blocks after index
RECURSIVE merge_forward(_, _)
merge_forward_none(blocks, index) == blocks

merge_forward(blocks, index) ==
    IF At(blocks, index).tag = "Free" /\ InRange(blocks, index + 1)
       /\ At(blocks, index + 1).tag = "Free"
    THEN merge_forward(
            RemoveAt(SetAt(blocks, index,
                           Free(At(blocks, index).offset,
                                At(blocks, index).size + At(blocks, index + 1).size)),
                     index + 1),
            index)
    ELSE blocks

merge_free_blocks(blocks, index) == merge_forward(blocks, merge_back(blocks, index))

\* the remainder split_and_insert_block leaves after the Used part
split_remainder_lost(blocks, index, offset, new_size) == blocks

split_remainder(blocks, index, offset, new_size) ==
    IF new_size > 0 THEN InsertAt(blocks, index + 1, Free(offset, new_size)) ELSE blocks

\* split_and_insert_block: result [alloc, res, panic]
split_and_insert_block(a, index, size0) ==
    LET size == align(size0, a.granularity)
    IN  IF InRange(a.blocks, index) /\ At(a.blocks, index).tag = "Free"
        THEN LET block == At(a.blocks, index)
             IN  IF ~(size <= block.size)
                 THEN [alloc |-> a, res |-> None, panic |-> TRUE]
                 ELSE [alloc |-> [a EXCEPT !.blocks =
                                     split_remainder(
                                        SetAt(a.blocks, index, Used(block.offset, size)),
                                        index, block.offset + size, block.size - size)],
                       res |-> Some(block.offset), panic |-> FALSE]
        ELSE [alloc |-> a, res |-> None, panic |-> FALSE]

\* split_and_insert_block_end: result [alloc, res, panic]
split_and_insert_block_end(a, index, size0) ==
    LET size == align(size0, a.granularity)
    IN  IF InRange(a.blocks, index) /\ At(a.blocks, index).tag = "Free"
        THEN LET block == At(a.blocks, index)
                 split == block.size - size
                 used == SetAt(a.blocks, index, Used(block.offset + split, size))
             IN  IF ~(size <= block.size)
                 THEN [alloc |-> a, res |-> None, panic |-> TRUE]
                 ELSE [alloc |-> [a EXCEPT !.blocks =
                                     IF split > 0
                                     THEN InsertAt(used, index, Free(block.offset, split))
                                     ELSE used],
                       res |-> Some(block.offset + split), panic |-> FALSE]
        ELSE [alloc |-> a, res |-> None, panic |-> FALSE]

\* DynamicAllocator::allocate: result [alloc, res, panic]
DynamicAllocator_allocate(a, size) ==
    LET index == find_first_free_block(a.blocks, size)
    IN  IF index # None
        THEN split_and_insert_block(a, Unwrap(index), size)
        ELSE [alloc |-> a, res |-> None, panic |-> FALSE]

\* DynamicAllocator::allocate_back: result [alloc, res, panic]
DynamicAllocator_allocate_back(a, size) ==
    LET index == find_last_free_block(a.blocks, size)
    IN  IF index # None
        THEN split_and_insert_block_end(a, Unwrap(index), size)
        ELSE [alloc |-> a, res |-> None, panic |-> FALSE]

\* DynamicAllocator::deallocate: result [alloc, res, panic]
DynamicAllocator_deallocate(a, offset) ==
    LET index == find_used_block(a.blocks, offset)
    IN  IF index # None /\ At(a.blocks, Unwrap(index)).tag = "Used"
        THEN [alloc |-> [a EXCEPT !.blocks =
                            merge_free_blocks(
                               SetAt(a.blocks, Unwrap(index),
                                     Free(At(a.blocks, Unwrap(index)).offset,
                                          At(a.blocks, Unwrap(index)).size)),
                               Unwrap(index))],
              res |-> None, panic |-> FALSE]
        ELSE [alloc |-> a, res |-> None, panic |-> TRUE]

(***************************************************************************)
(* RingAllocator.  One thread: the compare_exchange succeeds first time.   *)
(***************************************************************************)
RingAllocator_new(size, aligment) == [size |-> size, aligment |-> aligment, head |-> 0]

\* the pair (head returned, new head) the loop body computes
ring_heads_nowrap(size, old_head, aligned_size) == <<old_head, old_head + aligned_size>>

ring_heads(size, old_head, aligned_size) ==
    LET end == old_head + aligned_size
    IN  IF end > size THEN <<0, aligned_size>> ELSE <<old_head, end>>

\* self.head.compare_exchange(old_head, new_head, ..).is_ok()
compare_exchange_blind(head, old_head) == TRUE

compare_exchange(head, old_head) == head = old_head

\* RingAllocator::allocate: result [alloc, res, panic]
RingAllocator_allocate(r, size) ==
    IF ~(size <= r.size)
    THEN [alloc |-> r, res |-> None, panic |-> TRUE]
    ELSE LET hs == ring_heads(r.size, r.head, align(size, r.aligment))
         IN  [alloc |-> [r EXCEPT !.head = hs[2]], res |-> Some(hs[1]), panic |-> FALSE]

(***************************************************************************)
(* BumpAllocator                                                           *)
(***************************************************************************)
BumpAllocator_new(size, aligment) == [size |-> size, top |-> 0, aligment |-> aligment]

\* BumpAllocator::allocate: result [alloc, res, panic]
BumpAllocator_allocate(b, size) ==
    LET base == align(b.top, b.aligment)
    IN  IF base + size > b.size
        THEN [alloc |-> b, res |-> None, panic |-> FALSE]
        ELSE [alloc |-> [b EXCEPT !.top = base + size], res |-> Some(base), panic |-> FALSE]

(***************************************************************************)
(* usize values at both ends of the range.  A usize is represented by the  *)
(* integer nearest to 0 that is congruent to it modulo 2^64 (2^32 on a     *)
(* 32-bit target): n >= 0 is n itself, and n < 0 is usize::MAX + 1 + n, so *)
(* that -1 is usize::MAX.                                                  *)
(***************************************************************************)
\* x + y on usize, x below 2^30: [sum, overflow]; the sum has wrapped when
\* y is one of the values at the top and the result is at the bottom
usize_add(x, y) == [sum |-> x + y, overflow |-> y < 0 /\ x + y >= 0]

\* x > y on usize
usize_gt(x, y) ==
    IF (x < 0) = (y < 0) THEN x > y ELSE x < 0

\* BumpAllocator::allocate for every usize size: result [alloc, res, panic].
\* base + size panics on overflow when the build has overflow checks
\* (debug) and wraps otherwise (release).
BumpAllocator_allocate_usize(b, size, overflow_checks) ==
    LET base == align(b.top, b.aligment)
        end == usize_add(base, size)
    IN  IF end.overflow /\ overflow_checks
        THEN [alloc |-> b, res |-> None, panic |-> TRUE]
        ELSE IF usize_gt(end.sum, b.size)
             THEN [alloc |-> b, res |-> None, panic |-> FALSE]
             ELSE [alloc |-> [b EXCEPT !.top = end.sum], res |-> Some(base), panic |-> FALSE]

\* BumpAllocator::reset
BumpAllocator_reset_keep(b) == b

BumpAllocator_reset(b) == [b EXCEPT !.top = 0]

(***************************************************************************)
(* BlockAllocator.  `empty` starts as chunk_count - 1, ..., 1, 0 (top of   *)
(* the stack last).  Pops take from the top and pushes add to it, so the   *)
(* stack is always chunk_count - 1, ..., fresh followed by `returned`; the *)
(* model keeps these two parts instead of the whole vector.                *)
(***************************************************************************)
BlockAllocator_new(chunk_size, chunk_count) ==
    [chunk_size |-> chunk_size, chunk_count |-> chunk_count,
     fresh |-> 0, returned |-> <<>>]

\* self.empty.contains(&index)
BlockAllocator_contains_never(b, index) == FALSE

BlockAllocator_contains(b, index) ==
    \/ b.fresh <= index /\ index < b.chunk_count
    \/ \E i \in 1..Len(b.returned) : b.returned[i] = index

\* BlockAllocator::allocate: result [alloc, res]
BlockAllocator_allocate(b) ==
    IF b.returned # <<>>
    THEN [alloc |-> [b EXCEPT !.returned = Front(b.returned)],
          res |-> Some(Back(b.returned) * b.chunk_size)]
    ELSE IF b.fresh < b.chunk_count
         THEN [alloc |-> [b EXCEPT !.fresh = b.fresh + 1],
               res |-> Some(b.fresh * b.chunk_size)]
         ELSE [alloc |-> b, res |-> None]

\* BlockAllocator::dealloc: result [alloc, panic]
BlockAllocator_dealloc(b, offset) ==
    LET index == offset \div b.chunk_size
    IN  IF ~(index < b.chunk_count /\ offset % b.chunk_size = 0)
        THEN [alloc |-> b, panic |-> TRUE]
        ELSE IF BlockAllocator_contains(b, index)
             THEN [alloc |-> b, panic |-> TRUE]
             ELSE [alloc |-> [b EXCEPT !.returned = Append(b.returned, index)],
                   panic |-> FALSE]

(***************************************************************************)
(* UniformStorage, kiri-backend/src/vulkan/uniforms.rs.  A RenderResult is *)
(* Some(offset) for Ok(offset) and None for Err(OutOfAllocatedSpace).      *)
(***************************************************************************)
BUCKET_SIZE == 65535
MIN_UNIFORM_SIZE == 256
MAX_UNIFORM_SIZE == 16384
UNIFORM_BUFFER_SIZE == 8 * 1024 * 1024
BUCKET_COUNT == UNIFORM_BUFFER_SIZE \div BUCKET_SIZE
SIZE_RANGES ==
    << <<8192, 16384>>, <<4096, 8192>>, <<2048, 4096>>, <<1024, 2048>>,
       <<512, 1024>>, <<256, 512>>, <<0, 256>> >>

Bucket_default == [from |-> 0, to |-> 0, allocated |-> 0, free |-> 0, allocator |-> None]

\* Bucket::alloc: result [bucket, res, panic]
Bucket_alloc(b) ==
    IF b.allocator # None
    THEN IF b.free = 0
         THEN [bucket |-> b, res |-> None, panic |-> TRUE]   \* free -= 1 at 0; push never gets here
         ELSE LET r == BlockAllocator_allocate(Unwrap(b.allocator))
              IN  [bucket |-> [b EXCEPT !.allocated = b.allocated + 1,
                                        !.free = b.free - 1,
                                        !.allocator = Some(r.alloc)],
                   res |-> r.res, panic |-> FALSE]
    ELSE [bucket |-> b, res |-> None, panic |-> TRUE]

\* Bucket::dealloc: result [bucket, res, panic]; res is the bool returned
Bucket_dealloc_free_kept(b, offset) ==
    IF b.allocator # None
    THEN IF b.allocated = 0
         THEN [bucket |-> b, res |-> FALSE, panic |-> TRUE]
         ELSE LET r == BlockAllocator_dealloc(Unwrap(b.allocator), offset)
                  b1 == [b EXCEPT !.allocated = b.allocated - 1,
                                  !.allocator = Some(r.alloc)]
              IN  [bucket |-> b1, res |-> b1.allocated > 0, panic |-> r.panic]
    ELSE [bucket |-> b, res |-> FALSE, panic |-> TRUE]

Bucket_dealloc(b, offset) ==
    IF b.allocator # None
    THEN IF b.allocated = 0
         THEN [bucket |-> b, res |-> FALSE, panic |-> TRUE]   \* allocated -= 1 at 0; never reached
         ELSE LET r == BlockAllocator_dealloc(Unwrap(b.allocator), offset)
                  b1 == [b EXCEPT !.allocated = b.allocated - 1,
                                  !.free = b.free + 1,
                                  !.allocator = Some(r.alloc)]
              IN  [bucket |-> b1, res |-> b1.allocated > 0, panic |-> r.panic]
    ELSE [bucket |-> b, res |-> FALSE, panic |-> TRUE]

\* Bucket::init: result [bucket, panic]
Bucket_init_round_up(b, from, to) ==
    IF ~(to >= MIN_UNIFORM_SIZE /\ from < MAX_UNIFORM_SIZE /\ to <= MAX_UNIFORM_SIZE
         /\ to > from)
    THEN [bucket |-> b, panic |-> TRUE]
    ELSE [bucket |-> [from |-> from, to |-> to, allocated |-> 0,
                      free |-> (BUCKET_SIZE \div to) + 1,
                      allocator |-> Some(BlockAllocator_new(to, UNIFORM_BUFFER_SIZE \div to))],
          panic |-> FALSE]

Bucket_init(b, from, to) ==
    IF ~(to >= MIN_UNIFORM_SIZE /\ from < MAX_UNIFORM_SIZE /\ to <= MAX_UNIFORM_SIZE
         /\ to > from)
    THEN [bucket |-> b, panic |-> TRUE]
    ELSE [bucket |-> [from |-> from, to |-> to, allocated |-> 0,
                      free |-> BUCKET_SIZE \div to,
                      allocator |-> Some(BlockAllocator_new(to, UNIFORM_BUFFER_SIZE \div to))],
          panic |-> FALSE]

Bucket_is_suitable(b, size) ==
    b.allocator # None /\ b.free > 0 /\ size > b.from /\ size <= b.to

\* Bucket::release: result [bucket, panic]
Bucket_release(b) ==
    IF ~(b.allocated = 0)
    THEN [bucket |-> b, panic |-> TRUE]
    ELSE [bucket |-> [from |-> 0, to |-> 0, allocated |-> 0, free |-> 0,
                      allocator |-> None],
          panic |-> FALSE]

UniformStorage_new == [buckets |-> <<>>, free_buckets |-> <<>>]

\* UniformStorage::find_bucket_index
find_bucket_index(u, size) ==
    LET S == {i \in 0..(Len(u.buckets) - 1) : Bucket_is_suitable(At(u.buckets, i), size)}
    IN  IF S = {} THEN None ELSE Some(SetMin(S))

\* UniformStorage::find_size_range: Some(range), or None where unwrap() panics
find_size_range_closed(size) ==
    LET S == {i \in 1..Len(SIZE_RANGES) :
                 size >= SIZE_RANGES[i][1] /\ size <= SIZE_RANGES[i][2]}
    IN  IF S = {} THEN None ELSE Some(SIZE_RANGES[SetMin(S)])

find_size_range(size) ==
    LET S == {i \in 1..Len(SIZE_RANGES) :
                 size > SIZE_RANGES[i][1] /\ size <= SIZE_RANGES[i][2]}
    IN  IF S = {} THEN None ELSE Some(SIZE_RANGES[SetMin(S)])

\* the bucket slot allocate_bucket takes: a released index first
take_bucket_slot_grow(u) == None

take_bucket_slot(u) ==
    IF u.free_buckets # <<>> THEN Some(Back(u.free_buckets)) ELSE None

\* self.buckets.len() == BUCKET_COUNT
bucket_cap_never(u) == FALSE

bucket_cap(u) == Len(u.buckets) = BUCKET_COUNT

\* UniformStorage::allocate_bucket: result [storage, res, panic]
UniformStorage_allocate_bucket(u, size) ==
    LET range == find_size_range(size)
        free == take_bucket_slot(u)
    IN  IF range = None
        THEN [storage |-> u, res |-> None, panic |-> TRUE]
        ELSE IF free # None
        THEN LET u1 == [u EXCEPT !.free_buckets = Front(u.free_buckets)]
                 r == Bucket_init(At(u1.buckets, Unwrap(free)),
                                  Unwrap(range)[1], Unwrap(range)[2])
             IN  [storage |-> [u1 EXCEPT !.buckets = SetAt(u1.buckets, Unwrap(free), r.bucket)],
                  res |-> Some(Unwrap(free)), panic |-> r.panic]
        ELSE IF bucket_cap(u)
        THEN [storage |-> u, res |-> None, panic |-> FALSE]
        ELSE LET r == Bucket_init(Bucket_default, Unwrap(range)[1], Unwrap(range)[2])
             IN  [storage |-> [u EXCEPT !.buckets = Append(u.buckets, r.bucket)],
                  res |-> Some(Len(u.buckets)), panic |-> r.panic]

\* UniformStorage::push of a value of `size` bytes: result [storage, res, panic]
UniformStorage_push(u, size) ==
    LET found == find_bucket_index(u, size)
        ab == IF found = None
              THEN UniformStorage_allocate_bucket(u, size)
              ELSE [storage |-> u, res |-> found, panic |-> FALSE]
    IN  IF ab.panic \/ ab.res = None
        THEN [storage |-> ab.storage, res |-> None, panic |-> ab.panic]
        ELSE LET index == Unwrap(ab.res)
                 u1 == ab.storage
                 r == Bucket_alloc(At(u1.buckets, index))
             IN  [storage |-> [u1 EXCEPT !.buckets = SetAt(u1.buckets, index, r.bucket)],
                  res |-> IF r.res = None THEN None
                          ELSE Some(index * BUCKET_SIZE + Unwrap(r.res)),
                  panic |-> r.panic]

\* UniformStorage::dealloc: result [storage, res, panic]
UniformStorage_dealloc(u, offset) ==
    LET index == offset \div BUCKET_SIZE
        local_offset == offset - index * BUCKET_SIZE
    IN  IF ~InRange(u.buckets, index)
        THEN [storage |-> u, res |-> None, panic |-> TRUE]
        ELSE LET d == Bucket_dealloc(At(u.buckets, index), local_offset)
                 u1 == [u EXCEPT !.buckets = SetAt(u.buckets, index, d.bucket)]
             IN  IF d.panic THEN [storage |-> u1, res |-> None, panic |-> TRUE]
                 ELSE IF ~d.res
                 THEN LET rl == Bucket_release(d.bucket)
                      IN  [storage |-> [u1 EXCEPT
                                          !.buckets = SetAt(u1.buckets, index, rl.bucket),
                                          !.free_buckets =
                                              IF rl.panic THEN @ ELSE Append(@, index)],
                           res |-> None, panic |-> rl.panic]
                 ELSE [storage |-> u1, res |-> None, panic |-> FALSE]

(***************************************************************************)
(* The allocators as constructed, before any call                          *)
(***************************************************************************)
NoCall == [op |-> "new", arg |-> 0, res |-> None, panic |-> FALSE, pre |-> 0]

DynamicNew(size, granularity) ==
    /\ dynamic = DynamicAllocator_new(size, granularity)
    /\ dyn_hist = [size |-> size, freed |-> {}]

RingNew(size, aligment) == ring = RingAllocator_new(size, aligment)

BumpNew(size, aligment) == bump = BumpAllocator_new(size, aligment)

UniformNew == uniform_storage = UniformStorage_new

CallNew ==
    /\ call = NoCall
    /\ trace = <<>>

MemoryNew ==
    /\ DynamicNew(8, 2)
    /\ RingNew(1024, 64)
    /\ BumpNew(1024, 64)
    /\ UniformNew
    /\ CallNew

(***************************************************************************)
(* Inputs of the Pool specifications                                       *)
(***************************************************************************)
Payloads == {<<1, 11>>, <<2, 12>>}
HotVals == {1, 2}
ColdVals == {11, 12}
\* handles built with Handle::new, whether or not push ever returned them;
\* index MaxSlots is out of range for every pool of the model
BogusHandles == {Handle_new(i, g) : i \in 0..MaxSlots, g \in 0..1} \cup {Handle_invalid}
HandleInputs == DOMAIN hstat \cup BogusHandles

Saturate(k) == IF k > MAX_GENERATION THEN MAX_GENERATION ELSE k

\* history after k successful removes of slot `index`
AgeHandles(hs, index, k) ==
    [x \in DOMAIN hs |->
        IF Handle_index(x) = index /\ hs[x] >= 0 THEN Saturate(hs[x] + k) ELSE hs[x]]

\* Pool::new()
FreshPool ==
    /\ pool = Pool_new
    /\ hstat = <<>>
    /\ hpay = <<>>
    /\ pushed_count = 0
    /\ removed_count = 0

\* A pool that has already served MAX_GENERATION push/remove cycles on
\* slot 0 (the loop of test reuse_slot): push returned Handle(0, g) and
\* remove took it back, for g = 0 .. MAX_GENERATION - 1.  The slot is vacant,
\* its generation has wrapped to 0, and the history follows AgedHandle,
\* the handle of the cycle with generation 2: MAX_GENERATION - 2 removes
\* have advanced the generation since it was issued.
AgedHandle == Handle_new(0, 2)

AgedPool ==
    /\ pool = [hot |-> <<None>>, cold |-> <<None>>, generations |-> <<0>>, empty |-> <<0>>]
    /\ hstat = [x \in {AgedHandle} |-> MAX_GENERATION - 2]
    /\ hpay = [x \in {AgedHandle} |-> <<1, 11>>]
    /\ pushed_count = MAX_GENERATION
    /\ removed_count = MAX_GENERATION

PoolNew ==
    /\ FreshPool
    /\ last = [op |-> "new", h |-> Handle_invalid, res |-> None, panic |-> FALSE]
    /\ pool_panic = FALSE

PoolInit ==
    /\ PoolNew
    /\ DeviceNew
    /\ MemoryNew

PoolInitAged ==
    /\ FreshPool \/ AgedPool
    /\ last = [op |-> "new", h |-> Handle_invalid, res |-> None, panic |-> FALSE]
    /\ pool_panic = FALSE
    /\ DeviceNew
    /\ MemoryNew

Push(hot, cold) ==
    /\ ~pool_panic
    /\ pushed_count % MAX_GENERATION < MaxPush
    /\ pool.empty # <<>> \/ Len(pool.generations) < MaxSlots
    /\ LET r == Pool_push(pool, hot, cold)
       IN  /\ pool' = r.pool
           /\ pool_panic' = r.panic
           /\ last' = [op |-> "push", h |-> r.handle, res |-> None, panic |-> r.panic]
           /\ IF r.panic
              THEN UNCHANGED <<hstat, hpay, pushed_count>>
              ELSE /\ hstat' = [x \in DOMAIN hstat \cup {r.handle} |->
                                   IF x = r.handle THEN 0 ELSE hstat[x]]
                   /\ hpay' = [x \in DOMAIN hpay \cup {r.handle} |->
                                   IF x = r.handle THEN <<hot, cold>> ELSE hpay[x]]
                   /\ pushed_count' = pushed_count + 1
    /\ UNCHANGED removed_count
    /\ UNCHANGED devVars
    /\ UNCHANGED memVars

Remove(h) ==
    /\ ~pool_panic
    /\ LET r == Pool_remove(pool, h)
       IN  /\ pool' = r.pool
           /\ pool_panic' = r.panic
           /\ last' = [op |-> "remove", h |-> h, res |-> r.res, panic |-> r.panic]
           \* the generation advances whenever the validity check passed
           /\ hstat' = IF is_handle_valid(pool, h)
                        THEN AgeHandles(hstat, Handle_index(h), 1)
                        ELSE hstat
           /\ removed_count' = IF r.res # None THEN removed_count + 1 ELSE removed_count
    /\ UNCHANGED <<hpay, pushed_count>>
    /\ UNCHANGED devVars
    /\ UNCHANGED memVars

Get(h) ==
    /\ ~pool_panic
    /\ LET r == Pool_get(pool, h)
       IN  /\ pool_panic' = r.panic
           /\ last' = [op |-> "get", h |-> h, res |-> r.res, panic |-> r.panic]
    /\ UNCHANGED <<pool, hstat, hpay, pushed_count, removed_count>>
    /\ UNCHANGED devVars
    /\ UNCHANGED memVars

GetHot(h) ==
    /\ ~pool_panic
    /\ LET r == Pool_get_hot(pool, h)
       IN  /\ pool_panic' = r.panic
           /\ last' = [op |-> "get_hot", h |-> h, res |-> r.res, panic |-> r.panic]
    /\ UNCHANGED <<pool, hstat, hpay, pushed_count, removed_count>>
    /\ UNCHANGED devVars
    /\ UNCHANGED memVars

GetCold(h) ==
    /\ ~pool_panic
    /\ LET r == Pool_get_cold(pool, h)
       IN  /\ pool_panic' = r.panic
           /\ last' = [op |-> "get_cold", h |-> h, res |-> r.res, panic |-> r.panic]
    /\ UNCHANGED <<pool, hstat, hpay, pushed_count, removed_count>>
    /\ UNCHANGED devVars
    /\ UNCHANGED memVars

Replace(h, hot, cold) ==
    /\ ~pool_panic
    /\ LET r == Pool_replace(pool, h, hot, cold)
       IN  /\ pool' = r.pool
           /\ pool_panic' = r.panic
           /\ last' = [op |-> "replace", h |-> h, res |-> r.res, panic |-> r.panic]
           /\ hpay' = IF r.res # None THEN [hpay EXCEPT ![h] = <<hot, cold>>] ELSE hpay
    /\ UNCHANGED <<hstat, pushed_count, removed_count>>
    /\ UNCHANGED devVars
    /\ UNCHANGED memVars

ReplaceHot(h, hot) ==
    /\ ~pool_panic
    /\ LET r == Pool_replace_hot(pool, h, hot)
       IN  /\ pool' = r.pool
           /\ pool_panic' = r.panic
           /\ last' = [op |-> "replace_hot", h |-> h, res |-> r.res, panic |-> r.panic]
           /\ hpay' = IF r.res # None THEN [hpay EXCEPT ![h] = <<hot, hpay[h][2]>>] ELSE hpay
    /\ UNCHANGED <<hstat, pushed_count, removed_count>>
    /\ UNCHANGED devVars
    /\ UNCHANGED memVars

ReplaceCold(h, cold) ==
    /\ ~pool_panic
    /\ LET r == Pool_replace_cold(pool, h, cold)
       IN  /\ pool' = r.pool
           /\ pool_panic' = r.panic
           /\ last' = [op |-> "replace_cold", h |-> h, res |-> r.res, panic |-> r.panic]
           /\ hpay' = IF r.res # None THEN [hpay EXCEPT ![h] = <<hpay[h][1], cold>>] ELSE hpay
    /\ UNCHANGED <<hstat, pushed_count, removed_count>>
    /\ UNCHANGED devVars
    /\ UNCHANGED memVars

Drain ==
    /\ ~pool_panic
    /\ LET r == Pool_drain(pool)
       IN  /\ pool' = r.pool
           /\ pool_panic' = r.panic
           /\ last' = [op |-> "drain", h |-> Handle_invalid, res |-> r.items, panic |-> r.panic]
    /\ hstat' = [x \in DOMAIN hstat |-> IF hstat[x] = 0 THEN -1 ELSE hstat[x]]
    /\ UNCHANGED <<hpay, pushed_count, removed_count>>
    /\ UNCHANGED devVars
    /\ UNCHANGED memVars

Iterate ==
    /\ ~pool_panic
    /\ LET r == Pool_iter(pool)
       IN  /\ pool_panic' = r.panic
           /\ last' = [op |-> "iter", h |-> Handle_invalid, res |-> r.items, panic |-> r.panic]
    /\ UNCHANGED <<pool, hstat, hpay, pushed_count, removed_count>>
    /\ UNCHANGED devVars
    /\ UNCHANGED memVars

(***************************************************************************)
(* SpecPushRemove: a Pool driven by push and remove only (and the reads    *)
(* get and iter).  SpecPool: a Pool driven by its whole public API.        *)
(***************************************************************************)
NextPushRemove ==
    \/ \E pl \in Payloads : Push(pl[1], pl[2])
    \/ \E h \in DOMAIN hstat : Remove(h)
    \/ Iterate

SpecPushRemove == PoolInitAged /\ [][NextPushRemove]_vars

NextPool ==
    \/ \E pl \in Payloads : Push(pl[1], pl[2])
    \/ \E h \in HandleInputs : Remove(h)
    \/ \E h \in HandleInputs : Get(h)
    \/ \E h \in HandleInputs : GetHot(h)
    \/ \E h \in HandleInputs : GetCold(h)
    \/ \E h \in HandleInputs : \E pl \in Payloads : Replace(h, pl[1], pl[2])
    \/ \E h \in HandleInputs : \E v \in HotVals : ReplaceHot(h, v)
    \/ \E h \in HandleInputs : \E v \in ColdVals : ReplaceCold(h, v)
    \/ Drain
    \/ Iterate

SpecPool == PoolInit /\ [][NextPool]_vars

(***************************************************************************)
(* SpecIter: a Pool driven by push and remove, and one iterator at a time  *)
(* stepped with next() and asked for its size_hint().  The iterator        *)
(* borrows the pool, so push and remove run only while no iterator lives.  *)
(* call holds the iterator: arg is Iter::current, res the last result.     *)
(***************************************************************************)
IterLive == call.op \in {"iter", "iter.next", "iter.size_hint"}

IterPush(hot, cold) == ~IterLive /\ Push(hot, cold)

IterRemove(h) == ~IterLive /\ Remove(h)

\* Pool::iter
IterBegin ==
    /\ ~IterLive
    /\ ~pool_panic
    /\ call' = [op |-> "iter", arg |-> 0, res |-> None, panic |-> FALSE, pre |-> 0]
    /\ UNCHANGED <<poolVars, devVars, dynamic, dyn_hist, ring, bump, uniform_storage, trace>>

\* Iter::next
IterNext ==
    /\ IterLive
    /\ ~call.panic
    /\ LET r == Iter_next(pool.hot, pool.cold, call.arg)
       IN  call' = [op |-> "iter.next", arg |-> r.current, res |-> r.item,
                    panic |-> r.panic, pre |-> call.arg]
    /\ UNCHANGED <<poolVars, devVars, dynamic, dyn_hist, ring, bump, uniform_storage, trace>>

\* Iter::size_hint
IterSizeHint(overflow_checks) ==
    /\ IterLive
    /\ ~call.panic
    /\ LET r == Iter_size_hint(pool, call.arg, overflow_checks)
       IN  call' = [op |-> "iter.size_hint", arg |-> call.arg, res |-> r.res,
                    panic |-> r.panic, pre |-> call.arg]
    /\ UNCHANGED <<poolVars, devVars, dynamic, dyn_hist, ring, bump, uniform_storage, trace>>

\* the iterator goes out of scope
IterEnd ==
    /\ IterLive
    /\ ~call.panic
    /\ call' = NoCall
    /\ UNCHANGED <<poolVars, devVars, dynamic, dyn_hist, ring, bump, uniform_storage, trace>>

NextIter ==
    \/ \E pl \in Payloads : IterPush(pl[1], pl[2])
    \/ \E h \in DOMAIN hstat : IterRemove(h)
    \/ IterBegin
    \/ IterNext
    \/ \E overflow_checks \in BOOLEAN : IterSizeHint(overflow_checks)
    \/ IterEnd

SpecIter == PoolInit /\ [][NextIter]_vars

(***************************************************************************)
(* SpecDevice: threads creating and destroying buffers, images and image   *)
(* views while every frame goes begin_frame -> submit -> end_frame, the    *)
(* GPU completing submitted frames in order, and the final drop of the     *)
(* Device.                                                                 *)
(***************************************************************************)
Kinds == {"buffer", "image"}
HandlesOf(kind) == {x[2] : x \in {y \in issued : y[1] = kind}}

DeviceInit == PoolInit

NextDevice ==
    \/ \E t \in Threads : CreateBuffer(t)
    \/ \E t \in Threads : CreateImage(t)
    \/ \E t \in Threads : \E h \in HandlesOf("image") : \E d \in ViewDescs :
          GetOrCreateView(t, h, d)
    \/ \E t \in Threads : \E kind \in Kinds : \E h \in HandlesOf(kind) :
          DestroyRemove(t, kind, h)
    \/ \E t \in Threads : DestroyToDrop(t)
    \/ \E t \in Threads : BeginLock(t)
    \/ \E t \in Threads : BeginWait(t)
    \/ \E t \in Threads : BeginReset(t)
    \/ \E t \in Threads : Submit(t)
    \/ GpuComplete
    \/ \E t \in Threads : EndDrop(t)
    \/ \E t \in Threads : EndSwap(t)
    \/ DeviceDrop

SpecDevice == DeviceInit /\ [][NextDevice]_vars

(***************************************************************************)
(* SpecAlternate: SpecDevice with begin_frame and end_frame called in      *)
(* strict alternation (no begin_frame is called while an end_frame is in   *)
(* progress; a begin_frame without an end_frame in between panics), and    *)
(* without the teardown.                                                   *)
(***************************************************************************)
BeginAfterEnd(t) ==
    /\ \A u \in Threads : pc[u] # "ef_swap"
    /\ BeginLock(t)

NextAlternate ==
    \/ \E t \in Threads : CreateBuffer(t)
    \/ \E t \in Threads : CreateImage(t)
    \/ \E t \in Threads : \E h \in HandlesOf("image") : \E d \in ViewDescs :
          GetOrCreateView(t, h, d)
    \/ \E t \in Threads : \E kind \in Kinds : \E h \in HandlesOf(kind) :
          DestroyRemove(t, kind, h)
    \/ \E t \in Threads : DestroyToDrop(t)
    \/ \E t \in Threads : BeginAfterEnd(t)
    \/ \E t \in Threads : BeginWait(t)
    \/ \E t \in Threads : BeginReset(t)
    \/ \E t \in Threads : Submit(t)
    \/ GpuComplete
    \/ \E t \in Threads : EndDrop(t)
    \/ \E t \in Threads : EndSwap(t)

SpecAlternate == DeviceInit /\ [][NextAlternate]_vars

(***************************************************************************)
(* SpecFrame: the frame cycle with the frame's temp memory in use          *)
(* (push_temp while recording), frame references that are dropped without *)
(* end_frame, and buffers as the resources destroyed.                      *)
(***************************************************************************)
NextFrame ==
    \/ \E t \in Threads : CreateBuffer(t)
    \/ \E t \in Threads : \E h \in HandlesOf("buffer") : DestroyRemove(t, "buffer", h)
    \/ \E t \in Threads : DestroyToDrop(t)
    \/ \E t \in Threads : BeginLock(t)
    \/ \E t \in Threads : BeginWait(t)
    \/ \E t \in Threads : BeginReset(t)
    \/ \E t \in Threads : \E size \in TempSizes : PushTemp(t, size)
    \/ \E t \in Threads : Submit(t)
    \/ GpuComplete
    \/ \E t \in Threads : EndDrop(t)
    \/ \E t \in Threads : EndSwap(t)
    \/ \E t \in Threads : DropRef(t)
    \/ DeviceDrop

SpecFrame == DeviceInit /\ [][NextFrame]_vars

(***************************************************************************)
(* SpecLocks: the locks of the Device, one step per acquisition.  pc[t] is *)
(* the statement thread t is at; the guards a thread holds follow from it  *)
(* (Holds), so a lock is free when no other thread is at a statement       *)
(* inside the guard's scope.  The frames, their fences and the Arc clones  *)
(* are those of the Device; of the resource pools only the branch a call   *)
(* takes is kept (an allocation that fails, a handle that is not found).   *)
(* A failed Arc::get_mut panics the calling thread only.  The number of    *)
(* calls is not bounded.                                                   *)
(***************************************************************************)
LockOps == {"begin_frame", "end_frame", "create", "destroy", "get_buffer_desc"}

\* the pool a call is about
KindsOf(op) ==
    IF op \in {"create", "destroy"} THEN Kinds
    ELSE IF op = "get_buffer_desc" THEN {"buffer"} ELSE {None}

\* the first statement of each call
Entry(op) ==
    CASE op = "begin_frame" -> "bf:frames0"
      [] op = "end_frame" -> "ef:frames0"
      [] op = "create" -> "cr:memory"
      [] op = "destroy" -> "ds:storage"
      [] op = "get_buffer_desc" -> "gd:storage"

StorageLock(kind) == IF kind = "buffer" THEN "buffer_storage" ELSE "image_storage"

\* the lock a statement acquires (lock(), write() or read()), "" for none
Wants(label, kind) ==
    CASE label \in {"bf:frames0", "ef:frames0"} -> "frames0"
      [] label = "ef:frames1" -> "frames1"
      [] label \in {"bf:memory", "cr:memory"} -> "memory_allocator"
      [] label = "bf:descriptor" -> "descriptor_allocator"
      [] label = "bf:uniform" -> "uniform_storage"
      [] label \in {"bf:drop_list", "ds:drop_list"} -> "current_drop_list"
      [] label \in {"cr:storage", "ds:storage", "gd:storage"} -> StorageLock(kind)
      [] OTHER -> ""

\* the statement reached once the lock is acquired
Acquired(label) ==
    CASE label = "bf:frames0" -> "bf:get_mut"
      [] label = "bf:memory" -> "bf:descriptor"
      [] label = "bf:descriptor" -> "bf:uniform"
      [] label = "bf:uniform" -> "bf:reset"
      [] label = "bf:drop_list" -> "bf:take"
      [] label = "ef:frames0" -> "ef:get_mut"
      [] label = "ef:frames1" -> "ef:swap"
      [] label = "cr:memory" -> "cr:allocate"
      [] label = "cr:storage" -> "cr:push"
      [] label = "ds:storage" -> "ds:remove"
      [] label = "ds:drop_list" -> "ds:to_drop"
      [] label = "gd:storage" -> "gd:get"

\* the guards alive while a thread unwinds from the panic of expect(..):
\* MutexGuard::drop runs and unlocks frames[0]
guards_after_panic_kept == {"frames0"}

guards_after_panic == {}

\* the guards in scope at a statement
Holds(label, kind) ==
    CASE label \in {"bf:get_mut", "bf:fences", "bf:memory", "ef:get_mut", "ef:frames1"} ->
             {"frames0"}
      [] label = "bf:descriptor" -> {"frames0", "memory_allocator"}
      [] label = "bf:uniform" -> {"frames0", "memory_allocator", "descriptor_allocator"}
      [] label \in {"bf:reset", "bf:drop_list"} ->
             {"frames0", "memory_allocator", "descriptor_allocator", "uniform_storage"}
      [] label = "bf:take" ->
             {"frames0", "memory_allocator", "descriptor_allocator", "uniform_storage",
              "current_drop_list"}
      [] label = "ef:swap" -> {"frames0", "frames1"}
      [] label = "cr:allocate" -> {"memory_allocator"}
      [] label \in {"cr:push", "ds:remove", "gd:get"} -> {StorageLock(kind)}
      [] label = "ds:to_drop" -> {"current_drop_list"}
      [] label = "panicked" -> guards_after_panic
      [] OTHER -> {}

\* RwLock::read shares the lock with other readers
Shared(label) == label \in {"gd:storage", "gd:get"}

\* lock(), write() or read() of thread t returns
CanAcquire(t) ==
    \A u \in Threads \ {t} :
        Wants(pc[t], local[t]) \in Holds(pc[u], local[u]) => Shared(pc[t]) /\ Shared(pc[u])

\* a call is made; end_frame drops the Arc<Frame> it is given first
Call(t, op, kind) ==
    /\ dev = "alive" /\ pc[t] = "idle"
    /\ op = "end_frame" => held[t] # "none"
    /\ pc' = [pc EXCEPT ![t] = Entry(op)]
    /\ local' = [local EXCEPT ![t] = kind]
    /\ held' = IF op = "end_frame" THEN [held EXCEPT ![t] = "none"] ELSE held
    /\ UNCHANGED <<image_storage, buffer_storage, current_drop_list, frames, frames0_lock,
                   gpu_queue, completed, destroyed, frame_count, next_obj, created_items,
                   issued, pending_at, dev>>
    /\ UNCHANGED poolVars
    /\ UNCHANGED memVars

Acquire(t) ==
    /\ dev = "alive"
    /\ Wants(pc[t], local[t]) # ""
    /\ CanAcquire(t)
    /\ pc' = [pc EXCEPT ![t] = Acquired(pc[t])]
    /\ UNCHANGED <<image_storage, buffer_storage, current_drop_list, frames, frames0_lock,
                   held, local, gpu_queue, completed, destroyed, frame_count, next_obj,
                   created_items, issued, pending_at, dev>>
    /\ UNCHANGED poolVars
    /\ UNCHANGED memVars

\* Arc::get_mut(&mut frame0).expect(..) of begin_frame and of end_frame
GetMut(t) ==
    /\ dev = "alive" /\ pc[t] \in {"bf:get_mut", "ef:get_mut"}
    /\ pc' = [pc EXCEPT ![t] = IF ~Arc_get_mut THEN "panicked"
                                 ELSE IF pc[t] = "bf:get_mut" THEN "bf:fences"
                                 ELSE "ef:frames1"]
    /\ UNCHANGED <<image_storage, buffer_storage, current_drop_list, frames, frames0_lock,
                   held, local, gpu_queue, completed, destroyed, frame_count, next_obj,
                   created_items, issued, pending_at, dev>>
    /\ UNCHANGED poolVars
    /\ UNCHANGED memVars

\* wait_for_fences(..)? returns, with Ok or with an error of the driver
Fences(t, ok) ==
    /\ dev = "alive" /\ pc[t] = "bf:fences"
    /\ wait_for_fences(frames[1])
    /\ pc' = [pc EXCEPT ![t] = IF ok THEN "bf:memory" ELSE "idle"]
    /\ UNCHANGED <<image_storage, buffer_storage, current_drop_list, frames, frames0_lock,
                   held, local, gpu_queue, completed, destroyed, frame_count, next_obj,
                   created_items, issued, pending_at, dev>>
    /\ UNCHANGED poolVars
    /\ UNCHANGED memVars

\* frame0.reset(..)?: the purge and the cursor, then reset_command_pool
Reset(t, ok) ==
    /\ dev = "alive" /\ pc[t] = "bf:reset"
    /\ LET rs == Frame_reset(frames[1])
       IN  /\ frames' = [frames EXCEPT ![1] = rs.frame]
           /\ destroyed' = Destroy(destroyed, rs.log)
    /\ pc' = [pc EXCEPT ![t] = IF ok THEN "bf:drop_list" ELSE "idle"]
    /\ UNCHANGED <<image_storage, buffer_storage, current_drop_list, frames0_lock, held,
                   local, gpu_queue, completed, frame_count, next_obj, created_items, issued,
                   pending_at, dev>>
    /\ UNCHANGED poolVars
    /\ UNCHANGED memVars

\* frame0.drop_list.replace(mem::take(..)), the guards go out of scope and
\* Ok(frame0.clone()) is returned.  The frames begun are not counted here:
\* a submission is known to the GPU by the Frame it was recorded on.
Take(t) ==
    /\ dev = "alive" /\ pc[t] = "bf:take"
    /\ LET m == mem_take(current_drop_list)
           r == drop_list_replace(frames[1], m.taken)
       IN  /\ current_drop_list' = m.left
           /\ frames' = [frames EXCEPT ![1] = [r.frame EXCEPT !.no = frames[1].id]]
           /\ destroyed' = Destroy(destroyed, r.log)
    /\ held' = [held EXCEPT ![t] = "recording"]
    /\ pc' = [pc EXCEPT ![t] = "idle"]
    /\ UNCHANGED <<image_storage, buffer_storage, frames0_lock, local, gpu_queue, completed,
                   frame_count, next_obj, created_items, issued, pending_at, dev>>
    /\ UNCHANGED poolVars
    /\ UNCHANGED memVars

\* std::mem::swap(frame0, frame1) and the return of end_frame
Swap(t) ==
    /\ dev = "alive" /\ pc[t] = "ef:swap"
    /\ frames' = mem_swap(frames)
    /\ pc' = [pc EXCEPT ![t] = "idle"]
    /\ UNCHANGED <<image_storage, buffer_storage, current_drop_list, frames0_lock, held,
                   local, gpu_queue, completed, destroyed, frame_count, next_obj,
                   created_items, issued, pending_at, dev>>
    /\ UNCHANGED poolVars
    /\ UNCHANGED memVars

\* the statement under a guard of create_*, destroy_resource and
\* get_buffer_desc, and the release of the guard; ok: the allocation
\* succeeded, the handle was found
Proceed(t, ok) ==
    /\ dev = "alive" /\ pc[t] \in {"cr:allocate", "cr:push", "ds:remove", "ds:to_drop", "gd:get"}
    /\ LET next == IF pc[t] = "cr:allocate" /\ ok THEN "cr:storage"
                   ELSE IF pc[t] = "ds:remove" /\ ok THEN "ds:drop_list"
                   ELSE "idle"
       IN  /\ pc' = [pc EXCEPT ![t] = next]
           /\ local' = [local EXCEPT ![t] = IF next = "idle" THEN None ELSE @]
    /\ UNCHANGED <<image_storage, buffer_storage, current_drop_list, frames, frames0_lock,
                   held, gpu_queue, completed, destroyed, frame_count, next_obj,
                   created_items, issued, pending_at, dev>>
    /\ UNCHANGED poolVars
    /\ UNCHANGED memVars

\* the steps of a thread inside a call that take no lock
Step(t) ==
    \/ GetMut(t)
    \/ \E ok \in BOOLEAN : Fences(t, ok)
    \/ \E ok \in BOOLEAN : Reset(t, ok)
    \/ Take(t)
    \/ Swap(t)
    \/ \E ok \in BOOLEAN : Proceed(t, ok)

NextLocks ==
    \/ \E t \in Threads : \E op \in LockOps : \E kind \in KindsOf(op) : Call(t, op, kind)
    \/ \E t \in Threads : Acquire(t)
    \/ \E t \in Threads : Step(t)
    \/ \E t \in Threads : Submit(t)
    \/ GpuComplete

SpecLocks == DeviceInit /\ [][NextLocks]_vars

\* A thread inside a call keeps running, the GPU completes what was
\* submitted, and a thread waiting for a lock that becomes free again and
\* again gets it (parking_lot hands a lock over to a waiting thread).
\* Nothing obliges a thread to make a call or to submit.
FairSpecLocks ==
    /\ SpecLocks
    /\ WF_vars(GpuComplete)
    /\ \A t \in Threads : WF_vars(Step(t)) /\ SF_vars(Acquire(t))

(***************************************************************************)
(* SpecDynamic: one DynamicAllocator driven by allocate, allocate_back and *)
(* deallocate.  A call that panics ends the behaviour.                     *)
(***************************************************************************)
\* <<region size, granularity>> given to DynamicAllocator::new
DynamicConfigs == {<<MaxRegion, 2>>, <<MaxRegion, 4>>, <<MaxRegion - 1, 2>>}
DynamicSizes == {0, 1, 2, 3, MaxRegion - 1, MaxRegion + 1}
DynamicOffsets == 0..MaxRegion

DynamicInit ==
    /\ PoolNew
    /\ DeviceNew
    /\ \E cfg \in DynamicConfigs : DynamicNew(cfg[1], cfg[2])
    /\ RingNew(1024, 64)
    /\ BumpNew(1024, 64)
    /\ UniformNew
    /\ CallNew

DynReturned(r) ==
    IF r.res # None
    THEN [dyn_hist EXCEPT !.freed = @ \ {Unwrap(r.res)}]
    ELSE dyn_hist

DynAllocate(size) ==
    /\ ~call.panic
    /\ Len(dynamic.blocks) < MaxExtents
    /\ LET r == DynamicAllocator_allocate(dynamic, size)
       IN  /\ dynamic' = r.alloc
           /\ call' = [op |-> "allocate", arg |-> size, res |-> r.res,
                       panic |-> r.panic, pre |-> dynamic]
           /\ dyn_hist' = DynReturned(r)
    /\ UNCHANGED <<poolVars, devVars, ring, bump, uniform_storage, trace>>

DynAllocateBack(size) ==
    /\ ~call.panic
    /\ Len(dynamic.blocks) < MaxExtents
    /\ LET r == DynamicAllocator_allocate_back(dynamic, size)
       IN  /\ dynamic' = r.alloc
           /\ call' = [op |-> "allocate_back", arg |-> size, res |-> r.res,
                       panic |-> r.panic, pre |-> dynamic]
           /\ dyn_hist' = DynReturned(r)
    /\ UNCHANGED <<poolVars, devVars, ring, bump, uniform_storage, trace>>

DynDeallocate(offset) ==
    /\ ~call.panic
    /\ LET r == DynamicAllocator_deallocate(dynamic, offset)
       IN  /\ dynamic' = r.alloc
           /\ call' = [op |-> "deallocate", arg |-> offset, res |-> None,
                       panic |-> r.panic, pre |-> dynamic]
           /\ dyn_hist' = IF r.panic THEN dyn_hist
                          ELSE [dyn_hist EXCEPT !.freed = @ \cup {offset}]
    /\ UNCHANGED <<poolVars, devVars, ring, bump, uniform_storage, trace>>

NextDynamic ==
    \/ \E size \in DynamicSizes : DynAllocate(size)
    \/ \E size \in DynamicSizes : DynAllocateBack(size)
    \/ \E offset \in DynamicOffsets : DynDeallocate(offset)

SpecDynamic == DynamicInit /\ [][NextDynamic]_vars

(***************************************************************************)
(* SpecBump: one BumpAllocator driven by allocate and reset.               *)
(* SpecRing: one RingAllocator driven by allocate from a single thread.    *)
(* Both record their calls in trace, at most MaxCalls of them.             *)
(***************************************************************************)
\* <<size, aligment>> given to BumpAllocator::new, as in the tests
BumpConfigs == {<<1024, 64>>, <<1024, 128>>}
BumpSizes == {0, 10, 100, 500, 1025}

BumpInit ==
    /\ PoolNew
    /\ DeviceNew
    /\ DynamicNew(8, 2)
    /\ RingNew(1024, 64)
    /\ \E cfg \in BumpConfigs : BumpNew(cfg[1], cfg[2])
    /\ UniformNew
    /\ CallNew

BumpAllocate(size) ==
    /\ Len(trace) < MaxCalls
    /\ LET r == BumpAllocator_allocate(bump, size)
       IN  /\ bump' = r.alloc
           /\ call' = [op |-> "bump.allocate", arg |-> size, res |-> r.res,
                       panic |-> r.panic, pre |-> bump]
           /\ trace' = Append(trace, <<"allocate", size, r.res>>)
    /\ UNCHANGED <<poolVars, devVars, dynamic, dyn_hist, ring, uniform_storage>>

BumpReset ==
    /\ Len(trace) < MaxCalls
    /\ bump' = BumpAllocator_reset(bump)
    /\ call' = [op |-> "bump.reset", arg |-> 0, res |-> None, panic |-> FALSE, pre |-> bump]
    /\ trace' = Append(trace, <<"reset", 0, None>>)
    /\ UNCHANGED <<poolVars, devVars, dynamic, dyn_hist, ring, uniform_storage>>

NextBump ==
    \/ \E size \in BumpSizes : BumpAllocate(size)
    \/ BumpReset

SpecBump == BumpInit /\ [][NextBump]_vars

(***************************************************************************)
(* SpecBumpWide: one BumpAllocator driven by allocate with sizes from both *)
(* ends of usize, in a debug or a release build, and by reset.             *)
(***************************************************************************)
\* sizes of the test, 0, a size above the capacity, usize::MAX and
\* usize::MAX - 511
BumpWideSizes == {0, 100, 500, 1025, -1, -512}

BumpAllocateWide(size, overflow_checks) ==
    /\ Len(trace) < MaxCalls
    /\ LET r == BumpAllocator_allocate_usize(bump, size, overflow_checks)
       IN  /\ bump' = r.alloc
           /\ call' = [op |-> "bump.allocate", arg |-> size, res |-> r.res,
                       panic |-> r.panic, pre |-> bump]
           /\ trace' = Append(trace, <<"allocate", size, r.res>>)
    /\ UNCHANGED <<poolVars, devVars, dynamic, dyn_hist, ring, uniform_storage>>

NextBumpWide ==
    \/ \E size \in BumpWideSizes : \E overflow_checks \in BOOLEAN :
          BumpAllocateWide(size, overflow_checks)
    \/ BumpReset

SpecBumpWide == BumpInit /\ [][NextBumpWide]_vars

\* <<size, aligment>> given to RingAllocator::new
RingConfigs == {<<1024, 64>>, <<1000, 64>>}
RingSizes == {0, 128, 500, 990, 1024}

RingInit ==
    /\ PoolNew
    /\ DeviceNew
    /\ DynamicNew(8, 2)
    /\ \E cfg \in RingConfigs : RingNew(cfg[1], cfg[2])
    /\ BumpNew(1024, 64)
    /\ UniformNew
    /\ CallNew

RingAllocate(size) ==
    /\ ~call.panic
    /\ Len(trace) < MaxCalls
    /\ LET r == RingAllocator_allocate(ring, size)
       IN  /\ ring' = r.alloc
           /\ call' = [op |-> "ring.allocate", arg |-> size, res |-> r.res,
                       panic |-> r.panic, pre |-> ring]
           /\ trace' = Append(trace, <<"allocate", size, r.res>>)
    /\ UNCHANGED <<poolVars, devVars, dynamic, dyn_hist, bump, uniform_storage>>

NextRing == \E size \in RingSizes : RingAllocate(size)

SpecRing == RingInit /\ [][NextRing]_vars

(***************************************************************************)
(* SpecRingThreads: allocate called from two threads on one RingAllocator. *)
(* A call is the assertion, then rounds of the loop: the load of the head  *)
(* and the compare_exchange are separate steps, and other threads run in   *)
(* between.  trace lists the calls in the order of their successful        *)
(* compare_exchange.                                                       *)
(***************************************************************************)
RingThreadSizes == {0, 128, 500, 1024}

RingThreadsInit == RingInit

\* calls begun so far
RingCalls == Len(trace) + Cardinality({t \in Threads : pc[t] # "idle"})

\* assert!(size <= self.size), then the loop is entered
RingCall(t, size) ==
    /\ ~call.panic
    /\ pc[t] = "idle"
    /\ RingCalls < MaxThreadCalls
    /\ IF size <= ring.size
       THEN /\ pc' = [pc EXCEPT ![t] = "ring_load"]
            /\ local' = [local EXCEPT ![t] = [size |-> size, old_head |-> 0, rounds |-> 0]]
            /\ UNCHANGED call
       ELSE /\ call' = [op |-> "ring.allocate", arg |-> size, res |-> None,
                        panic |-> TRUE, pre |-> ring]
            /\ UNCHANGED <<pc, local>>
    /\ UNCHANGED <<poolVars, image_storage, buffer_storage, current_drop_list, frames,
                   frames0_lock, held, gpu_queue, completed, destroyed, frame_count,
                   next_obj, created_items, issued, pending_at, dev, dynamic, dyn_hist,
                   ring, bump, uniform_storage, trace>>

\* let old_head = self.head.load(Ordering::Acquire)
RingLoad(t) ==
    /\ ~call.panic
    /\ pc[t] = "ring_load"
    /\ pc' = [pc EXCEPT ![t] = "ring_cas"]
    /\ local' = [local EXCEPT ![t].old_head = ring.head, ![t].rounds = @ + 1]
    /\ UNCHANGED <<poolVars, image_storage, buffer_storage, current_drop_list, frames,
                   frames0_lock, held, gpu_queue, completed, destroyed, frame_count,
                   next_obj, created_items, issued, pending_at, dev, memVars>>

\* the compare_exchange: on success the call returns, otherwise the loop
\* goes round again
RingCompareExchange(t) ==
    /\ ~call.panic
    /\ pc[t] = "ring_cas"
    /\ LET hs == ring_heads(ring.size, local[t].old_head,
                            align(local[t].size, ring.aligment))
       IN  IF compare_exchange(ring.head, local[t].old_head)
           THEN /\ ring' = [ring EXCEPT !.head = hs[2]]
                /\ call' = [op |-> "ring.allocate", arg |-> local[t].size,
                            res |-> Some(hs[1]), panic |-> FALSE, pre |-> ring]
                /\ trace' = Append(trace, <<"allocate", local[t].size, Some(hs[1]), t,
                                            local[t].rounds>>)
                /\ pc' = [pc EXCEPT ![t] = "idle"]
                /\ local' = [local EXCEPT ![t] = None]
           ELSE /\ pc' = [pc EXCEPT ![t] = "ring_load"]
                /\ UNCHANGED <<ring, call, trace, local>>
    /\ UNCHANGED <<poolVars, image_storage, buffer_storage, current_drop_list, frames,
                   frames0_lock, held, gpu_queue, completed, destroyed, frame_count,
                   next_obj, created_items, issued, pending_at, dev, dynamic, dyn_hist,
                   bump, uniform_storage>>

NextRingThreads ==
    \/ \E t \in Threads, size \in RingThreadSizes : RingCall(t, size)
    \/ \E t \in Threads : RingLoad(t)
    \/ \E t \in Threads : RingCompareExchange(t)

SpecRingThreads == RingThreadsInit /\ [][NextRingThreads]_vars

(***************************************************************************)
(* SpecTemp: begin_frame, then push_temp calls of any slice length on the  *)
(* frame being recorded, in a build with or without overflow checks.       *)
(***************************************************************************)
\* slice lengths in bytes: 0, 1, ALIGMENT, the region less one unit, the
\* region, the region plus one, 2^32 - ALIGMENT + 1 and 2^32
TempBytes ==
    {<<0, 0>>, <<0, 1>>, <<1, 0>>,
     <<(MAX_TEMP_MEMORY \div ALIGMENT) - 1, 0>>, <<MAX_TEMP_MEMORY \div ALIGMENT, 0>>,
     <<MAX_TEMP_MEMORY \div ALIGMENT, 1>>, <<U32_UNITS - 1, 1>>, <<U32_UNITS, 0>>}

PushTempCall(t, bytes, overflow_checks) ==
    /\ dev = "alive" /\ pc[t] = "idle" /\ held[t] = "recording"
    /\ Len(trace) <= MaxTempPushes
    /\ LET r == Frame_push_temp(frames[1].temp_top, bytes, overflow_checks)
       IN  /\ frames' = [frames EXCEPT ![1].temp_top = r.top]
           /\ call' = [op |-> "push_temp", arg |-> bytes, res |-> r.res,
                       panic |-> r.panic, pre |-> frames[1].temp_top]
           /\ trace' = Append(trace, <<"push_temp", bytes, r.res>>)
           /\ dev' = IF r.panic THEN "panic:push_temp" ELSE dev
    /\ UNCHANGED <<image_storage, buffer_storage, current_drop_list, frames0_lock, pc, held,
                   local, gpu_queue, completed, destroyed, frame_count, next_obj,
                   created_items, issued, pending_at>>
    /\ UNCHANGED poolVars
    /\ UNCHANGED <<dynamic, dyn_hist, ring, bump, uniform_storage>>

NextTemp ==
    \/ \E t \in Threads : BeginLock(t)
    \/ \E t \in Threads : BeginWait(t)
    \/ \E t \in Threads : BeginReset(t)
    \/ \E t \in Threads : \E bytes \in TempBytes : \E overflow_checks \in BOOLEAN :
          PushTempCall(t, bytes, overflow_checks)

SpecTemp == DeviceInit /\ [][NextTemp]_vars

(***************************************************************************)
(* SpecTempThreads: push_temp called from two threads on the frame in slot *)
(* 0, with no reset in between.  fetch_update loads the cursor, then       *)
(* repeats: apply the closure to the value it has; on None return Err; on  *)
(* Some(new) compare_exchange_weak, which returns Ok or hands back the     *)
(* value found.  The load and every round are separate steps.  (A spurious *)
(* failure of compare_exchange_weak hands back the same value and changes  *)
(* nothing.)                                                               *)
(***************************************************************************)
\* slice lengths in bytes: 1, the region less one unit, the region plus one,
\* 2^32 - ALIGMENT + 1 and 2^32
TempThreadBytes ==
    {<<0, 1>>, <<(MAX_TEMP_MEMORY \div ALIGMENT) - 1, 0>>, <<MAX_TEMP_MEMORY \div ALIGMENT, 1>>,
     <<U32_UNITS - 1, 1>>, <<U32_UNITS, 0>>}

\* calls begun so far
TempCalls == Len(trace) + Cardinality({t \in Threads : pc[t] # "idle"})

\* push_temp up to the load of fetch_update
TempLoad(t, bytes, overflow_checks) ==
    /\ dev = "alive" /\ pc[t] = "idle"
    /\ TempCalls <= MaxTempPushes
    /\ pc' = [pc EXCEPT ![t] = "temp_update"]
    /\ local' = [local EXCEPT ![t] = [bytes |-> bytes, x |-> frames[1].temp_top,
                                      overflow_checks |-> overflow_checks]]
    /\ UNCHANGED <<image_storage, buffer_storage, current_drop_list, frames, frames0_lock,
                   held, gpu_queue, completed, destroyed, frame_count, next_obj,
                   created_items, issued, pending_at, dev>>
    /\ UNCHANGED poolVars
    /\ UNCHANGED memVars

\* one round of fetch_update, and the return of push_temp when it ends
TempUpdate(t) ==
    /\ dev = "alive" /\ pc[t] = "temp_update"
    /\ LET r == Frame_push_temp(local[t].x, local[t].bytes, local[t].overflow_checks)
           done == r.panic \/ r.res = None \/ compare_exchange(frames[1].temp_top, local[t].x)
       IN  IF done
           THEN /\ frames' = [frames EXCEPT ![1].temp_top = IF r.res = None THEN @ ELSE r.top]
                /\ call' = [op |-> "push_temp", arg |-> local[t].bytes, res |-> r.res,
                            panic |-> r.panic, pre |-> frames[1].temp_top]
                /\ trace' = Append(trace, <<"push_temp", local[t].bytes, r.res, t>>)
                /\ dev' = IF r.panic THEN "panic:push_temp" ELSE dev
                /\ pc' = [pc EXCEPT ![t] = "idle"]
                /\ local' = [local EXCEPT ![t] = None]
           ELSE /\ local' = [local EXCEPT ![t].x = frames[1].temp_top]
                /\ UNCHANGED <<frames, call, trace, dev, pc>>
    /\ UNCHANGED <<image_storage, buffer_storage, current_drop_list, frames0_lock, held,
                   gpu_queue, completed, destroyed, frame_count, next_obj, created_items,
                   issued, pending_at>>
    /\ UNCHANGED poolVars
    /\ UNCHANGED <<dynamic, dyn_hist, ring, bump, uniform_storage>>

NextTempThreads ==
    \/ \E t \in Threads : \E bytes \in TempThreadBytes : \E overflow_checks \in BOOLEAN :
          TempLoad(t, bytes, overflow_checks)
    \/ \E t \in Threads : TempUpdate(t)

SpecTempThreads == DeviceInit /\ [][NextTempThreads]_vars

(***************************************************************************)
(* SpecUniform: one UniformStorage driven by push and dealloc, at most     *)
(* MaxCalls calls.  dealloc is given offsets that push has returned, live  *)
(* or not any more, and offsets that it never returned.                    *)
(***************************************************************************)
\* size_of::<T>() of the pushed values: both ends of the two smallest size
\* classes, the largest size, and the sizes 0 and 16385 outside the table
UniformSizes == {0, 1, MIN_UNIFORM_SIZE, MIN_UNIFORM_SIZE + 1, 2 * MIN_UNIFORM_SIZE,
                 MAX_UNIFORM_SIZE, MAX_UNIFORM_SIZE + 1}

\* the offsets push has returned so far
Returned == {Unwrap(trace[i][3]) : i \in {j \in 1..Len(trace) :
                                             trace[j][1] = "push" /\ trace[j][3] # None}}

\* offsets no push has returned when dealloc gets them: inside a block,
\* a block never handed out, and buckets that may not exist
BogusOffsets == {1, 2 * MAX_UNIFORM_SIZE, BUCKET_SIZE + MIN_UNIFORM_SIZE, 2 * BUCKET_SIZE}

UniformInit ==
    /\ PoolNew
    /\ DeviceNew
    /\ DynamicNew(8, 2)
    /\ RingNew(1024, 64)
    /\ BumpNew(1024, 64)
    /\ UniformNew
    /\ CallNew

UniformPush(size) ==
    /\ ~call.panic
    /\ Len(trace) < MaxCalls
    /\ LET r == UniformStorage_push(uniform_storage, size)
       IN  /\ uniform_storage' = r.storage
           /\ call' = [op |-> "uniform.push", arg |-> size, res |-> r.res,
                       panic |-> r.panic, pre |-> uniform_storage]
           /\ trace' = Append(trace, <<"push", size, r.res>>)
    /\ UNCHANGED <<poolVars, devVars, dynamic, dyn_hist, ring, bump>>

UniformDealloc(offset) ==
    /\ ~call.panic
    /\ Len(trace) < MaxCalls
    /\ LET r == UniformStorage_dealloc(uniform_storage, offset)
       IN  /\ uniform_storage' = r.storage
           /\ call' = [op |-> "uniform.dealloc", arg |-> offset, res |-> None,
                       panic |-> r.panic, pre |-> uniform_storage]
           /\ trace' = Append(trace, <<"dealloc", offset, None>>)
    /\ UNCHANGED <<poolVars, devVars, dynamic, dyn_hist, ring, bump>>

NextUniform ==
    \/ \E size \in UniformSizes : UniformPush(size)
    \/ \E offset \in Returned \cup BogusOffsets : UniformDealloc(offset)

SpecUniform == UniformInit /\ [][NextUniform]_vars

(***************************************************************************)
(* SpecDropList: one DropList (held in current_drop_list) and the          *)
(* UniformStorage its purge deallocates into.  Items of the six kinds are  *)
(* queued in any order and purge is called at any time; call.res is what   *)
(* the purge destroyed, in order.                                          *)
(***************************************************************************)
\* the storage after n pushes of a value of `size` bytes
RECURSIVE Filled(_, _, _)
Filled(u, size, n) ==
    IF n = 0 THEN u ELSE Filled(UniformStorage_push(u, size).storage, size, n - 1)

\* the raw handle queued for each kind
DropItem == 1

\* uniforms.dealloc for each drained offset, in order; a panic ends the purge:
\* result [storage, done, panic], done = offsets deallocated
RECURSIVE dealloc_each(_, _, _)
dealloc_each(u, offsets, done) ==
    IF offsets = <<>> THEN [storage |-> u, done |-> done, panic |-> FALSE]
    ELSE LET r == UniformStorage_dealloc(u, Head(offsets))
         IN  IF r.panic THEN [storage |-> r.storage, done |-> done, panic |-> TRUE]
             ELSE dealloc_each(r.storage, Tail(offsets), done + 1)

\* the offsets of two pushed uniforms
DropOffsets == {0, MIN_UNIFORM_SIZE}

DropListInit ==
    /\ PoolNew
    /\ DeviceNew
    /\ DynamicNew(8, 2)
    /\ RingNew(1024, 64)
    /\ BumpNew(1024, 64)
    /\ uniform_storage = Filled(UniformStorage_new, 1, 2)
    /\ CallNew

DropImage ==
    /\ ~call.panic
    /\ Len(trace) < MaxCalls
    /\ current_drop_list' = DropList_drop_image(current_drop_list, DropItem)
    /\ call' = [op |-> "drop_image", arg |-> DropItem, res |-> None, panic |-> FALSE,
                pre |-> current_drop_list]
    /\ trace' = Append(trace, <<"drop_image", DropItem, None>>)
    /\ UNCHANGED <<poolVars, image_storage, buffer_storage, frames, frames0_lock, pc,
                   held, local, gpu_queue, completed, destroyed, frame_count, next_obj,
                   created_items, issued, pending_at, dev, dynamic, dyn_hist, ring, bump,
                   uniform_storage>>

DropImageView ==
    /\ ~call.panic
    /\ Len(trace) < MaxCalls
    /\ current_drop_list' = DropList_drop_image_view(current_drop_list, DropItem)
    /\ call' = [op |-> "drop_image_view", arg |-> DropItem, res |-> None, panic |-> FALSE,
                pre |-> current_drop_list]
    /\ trace' = Append(trace, <<"drop_image_view", DropItem, None>>)
    /\ UNCHANGED <<poolVars, image_storage, buffer_storage, frames, frames0_lock, pc,
                   held, local, gpu_queue, completed, destroyed, frame_count, next_obj,
                   created_items, issued, pending_at, dev, dynamic, dyn_hist, ring, bump,
                   uniform_storage>>

DropBuffer ==
    /\ ~call.panic
    /\ Len(trace) < MaxCalls
    /\ current_drop_list' = DropList_drop_buffer(current_drop_list, DropItem)
    /\ call' = [op |-> "drop_buffer", arg |-> DropItem, res |-> None, panic |-> FALSE,
                pre |-> current_drop_list]
    /\ trace' = Append(trace, <<"drop_buffer", DropItem, None>>)
    /\ UNCHANGED <<poolVars, image_storage, buffer_storage, frames, frames0_lock, pc,
                   held, local, gpu_queue, completed, destroyed, frame_count, next_obj,
                   created_items, issued, pending_at, dev, dynamic, dyn_hist, ring, bump,
                   uniform_storage>>

FreeMemory ==
    /\ ~call.panic
    /\ Len(trace) < MaxCalls
    /\ current_drop_list' = DropList_free_memory(current_drop_list, DropItem)
    /\ call' = [op |-> "free_memory", arg |-> DropItem, res |-> None, panic |-> FALSE,
                pre |-> current_drop_list]
    /\ trace' = Append(trace, <<"free_memory", DropItem, None>>)
    /\ UNCHANGED <<poolVars, image_storage, buffer_storage, frames, frames0_lock, pc,
                   held, local, gpu_queue, completed, destroyed, frame_count, next_obj,
                   created_items, issued, pending_at, dev, dynamic, dyn_hist, ring, bump,
                   uniform_storage>>

FreeDescriptorSet ==
    /\ ~call.panic
    /\ Len(trace) < MaxCalls
    /\ current_drop_list' = DropList_free_descriptor_set(current_drop_list, DropItem)
    /\ call' = [op |-> "free_descriptor_set", arg |-> DropItem, res |-> None, panic |-> FALSE,
                pre |-> current_drop_list]
    /\ trace' = Append(trace, <<"free_descriptor_set", DropItem, None>>)
    /\ UNCHANGED <<poolVars, image_storage, buffer_storage, frames, frames0_lock, pc,
                   held, local, gpu_queue, completed, destroyed, frame_count, next_obj,
                   created_items, issued, pending_at, dev, dynamic, dyn_hist, ring, bump,
                   uniform_storage>>

FreeUniform(offset) ==
    /\ ~call.panic
    /\ Len(trace) < MaxCalls
    /\ current_drop_list' = DropList_free_uniform(current_drop_list, offset)
    /\ call' = [op |-> "free_uniform", arg |-> offset, res |-> None, panic |-> FALSE,
                pre |-> current_drop_list]
    /\ trace' = Append(trace, <<"free_uniform", offset, None>>)
    /\ UNCHANGED <<poolVars, image_storage, buffer_storage, frames, frames0_lock, pc,
                   held, local, gpu_queue, completed, destroyed, frame_count, next_obj,
                   created_items, issued, pending_at, dev, dynamic, dyn_hist, ring, bump,
                   uniform_storage>>

Purge ==
    /\ ~call.panic
    /\ Len(trace) < MaxCalls
    /\ LET r == DropList_purge(current_drop_list)
           u == dealloc_each(uniform_storage, current_drop_list.uniforms_to_free, 0)
           log == SubSeq(r.log, 1,
                         Len(r.log) - Len(current_drop_list.uniforms_to_free) + u.done)
       IN  /\ current_drop_list' = r.list
           /\ uniform_storage' = u.storage
           /\ call' = [op |-> "purge", arg |-> 0, res |-> log, panic |-> u.panic,
                       pre |-> current_drop_list]
           /\ trace' = Append(trace, <<"purge", 0, log>>)
    /\ UNCHANGED <<poolVars, image_storage, buffer_storage, frames, frames0_lock, pc,
                   held, local, gpu_queue, completed, destroyed, frame_count, next_obj,
                   created_items, issued, pending_at, dev, dynamic, dyn_hist, ring, bump>>

NextDropList ==
    \/ DropImage
    \/ DropImageView
    \/ DropBuffer
    \/ FreeMemory
    \/ FreeDescriptorSet
    \/ \E offset \in DropOffsets : FreeUniform(offset)
    \/ Purge

SpecDropList == DropListInit /\ [][NextDropList]_vars

(***************************************************************************)
(* SpecUniformFull: a UniformStorage that has served 3 * BUCKET_COUNT      *)
(* pushes of the largest size, so that BUCKET_COUNT buckets exist and none *)
(* has a free block, then driven by push and dealloc.                      *)
(***************************************************************************)
\* the first bucket once BUCKET_SIZE / 16384 pushes have taken its blocks
FullBucket ==
    Filled(UniformStorage_new, MAX_UNIFORM_SIZE, BUCKET_SIZE \div MAX_UNIFORM_SIZE).buckets[1]

\* every later push of that size finds no suitable bucket and appends one
\* more bucket, which fills up the same way, until BUCKET_COUNT exist
FullStorage ==
    [buckets |-> [i \in 1..BUCKET_COUNT |-> FullBucket], free_buckets |-> <<>>]

FullSizes == {1, MAX_UNIFORM_SIZE \div 2, MAX_UNIFORM_SIZE}

\* the blocks of the last bucket, live in FullStorage
FullOffsets ==
    {(BUCKET_COUNT - 1) * BUCKET_SIZE + k * MAX_UNIFORM_SIZE :
        k \in 0..((BUCKET_SIZE \div MAX_UNIFORM_SIZE) - 1)}

UniformFullInit ==
    /\ PoolNew
    /\ DeviceNew
    /\ DynamicNew(8, 2)
    /\ RingNew(1024, 64)
    /\ BumpNew(1024, 64)
    /\ uniform_storage = FullStorage
    /\ CallNew

NextUniformFull ==
    \/ \E size \in FullSizes : UniformPush(size)
    \/ \E offset \in FullOffsets \cup Returned : UniformDealloc(offset)

SpecUniformFull == UniformFullInit /\ [][NextUniformFull]_vars

(***************************************************************************)
(* The UniformStorage with blocks at both ends of the uniform buffer: it   *)
(* was filled by pushes of the largest size until BUCKET_COUNT buckets     *)
(* existed, then every block but the first of the last bucket was given    *)
(* back, the buckets from the last but one down to the first.  The next    *)
(* bucket to be taken from the free-bucket list is bucket 0, and the last  *)
(* bucket still serves the largest size class.                             *)
(***************************************************************************)
\* the first bucket after its blocks were taken and all given back
ReleasedBucket ==
    dealloc_each(Filled(UniformStorage_new, MAX_UNIFORM_SIZE, BUCKET_SIZE \div MAX_UNIFORM_SIZE),
                 <<0, MAX_UNIFORM_SIZE, 2 * MAX_UNIFORM_SIZE>>, 0).storage.buckets[1]

\* a full bucket after its blocks but the first were given back
LastBucket ==
    dealloc_each(Filled(UniformStorage_new, MAX_UNIFORM_SIZE, BUCKET_SIZE \div MAX_UNIFORM_SIZE),
                 <<MAX_UNIFORM_SIZE, 2 * MAX_UNIFORM_SIZE>>, 0).storage.buckets[1]

\* the offset of the block that is still live
EdgeOffset == (BUCKET_COUNT - 1) * BUCKET_SIZE

EdgeStorage ==
    [buckets |-> [i \in 1..BUCKET_COUNT |->
                     IF i < BUCKET_COUNT THEN ReleasedBucket ELSE LastBucket],
     free_buckets |-> [i \in 1..(BUCKET_COUNT - 1) |-> BUCKET_COUNT - 1 - i]]

EdgeSizes == {1, MIN_UNIFORM_SIZE + 1, MAX_UNIFORM_SIZE}

UniformEdgeInit ==
    /\ PoolNew
    /\ DeviceNew
    /\ DynamicNew(8, 2)
    /\ RingNew(1024, 64)
    /\ BumpNew(1024, 64)
    /\ uniform_storage = EdgeStorage
    /\ CallNew

NextUniformEdge ==
    \/ \E size \in EdgeSizes : UniformPush(size)
    \/ \E offset \in Returned \cup {EdgeOffset} : UniformDealloc(offset)

SpecUniformEdge == UniformEdgeInit /\ [][NextUniformEdge]_vars

(***************************************************************************)
(* Claims about the Device                                                 *)
(***************************************************************************)
\* the object a device item (memory, buffer, image, image view) belongs to
ObjOf(x) == IF x[1] = "image_view" THEN x[2][1] ELSE x[2]

\* objects a destroy call has removed from their pool
Removed == DOMAIN pending_at

Times(x) == IF x \in DOMAIN destroyed THEN destroyed[x] ELSE 0

\* number of entries of drop list dl that are item x
Occ(x, dl) == Cardinality({i \in DOMAIN DropList_items(dl) : DropList_items(dl)[i] = x})

\* number of threads holding the object of x between remove and to_drop
InTransit(x) ==
    Cardinality({t \in Threads : local[t] # None /\ Unwrap(local[t])[2].raw = ObjOf(x)})

Listed(x) ==
    Occ(x, current_drop_list) + Occ(x, frames[1].drop_list) + Occ(x, frames[2].drop_list)

NoRefHeld == \A u \in Threads : held[u] = "none"

\* C1: an object passed to destroy_buffer / destroy_image is physically
\* destroyed only after the GPU has completed every frame that was submitted
\* or being recorded at the moment of the destroy call.
C1_DestroyedAfterGpuDone ==
    \A x \in DOMAIN destroyed :
        ObjOf(x) \in Removed => pending_at[ObjOf(x)].left = {}

\* C1 witness: begin_frame has purged an object whose destroy call was made
\* while a frame was being recorded or in flight.
C1_Witness ==
    /\ dev = "alive"
    /\ \E x \in DOMAIN destroyed :
          ObjOf(x) \in Removed /\ pending_at[ObjOf(x)].any

\* C2: every item of an object removed from its pool is, at every moment,
\* either on its way into a drop list, in exactly one drop list exactly
\* once, or destroyed exactly once: never lost, never in two lists, never
\* destroyed twice.
C2_InOneDropListOnce ==
    \A x \in created_items :
        ObjOf(x) \in Removed =>
            /\ InTransit(x) + Listed(x) + Times(x) = 1
            /\ Times(x) <= 1

\* C2 witness: one thread is between remove and to_drop while the other is
\* inside begin_frame, about to move the current drop list into the frame.
C2_Witness ==
    \E t \in Threads, u \in Threads :
        /\ pc[t] = "ds_todrop" /\ local[t] # None
        /\ pc[u] = "bf_reset"

\* C3 as stated: after Device::drop completes, every object that was
\* created has been physically destroyed exactly once.
C3_TeardownDestroysEverything ==
    dev = "dropped" => \A x \in created_items : Times(x) = 1

\* C4: at most 2 frames are submitted and not yet completed, and once
\* begin_frame has returned frame N the GPU has completed frame N - 2.
C4_AtMostTwoFramesInFlight ==
    /\ Len(gpu_queue) <= 2
    /\ \A n \in 1..(frame_count - 2) : n \in completed

\* C4 witness: two frames are in flight and a begin_frame call is blocked
\* on the fences of the older one.
C4_Witness ==
    /\ Len(gpu_queue) = 2
    /\ \E t \in Threads : pc[t] = "bf_wait" /\ ~wait_for_fences(frames[1])

\* C5: begin_frame called while a frame reference is held panics and leaves
\* the frames, the drop lists and the destroyed objects as they were; it gets
\* past its check only when no reference is held; and every step that
\* purges a frame's drop list or rewinds its temp cursor is taken while no
\* reference is held.
C5_BeginWhileHeldPanics ==
    [][ /\ (dev' = "panic:begin_frame" /\ dev = "alive") =>
              /\ ~NoRefHeld
              /\ frames' = frames
              /\ current_drop_list' = current_drop_list
              /\ destroyed' = destroyed
        /\ \A t \in Threads :
              (pc[t] = "idle" /\ pc'[t] = "bf_wait") => NoRefHeld
        /\ \A s \in 1..2, s2 \in 1..2 :
              (/\ frames[s].id = frames'[s2].id
               /\ \/ frames'[s2].temp_top < frames[s].temp_top
                  \/ /\ DropList_items(frames[s].drop_list) # <<>>
                     /\ frames'[s2].drop_list # frames[s].drop_list)
              => NoRefHeld
      ]_vars

\* C5 witness: begin_frame has panicked while a reference was held, and the
\* held frame still has its temp data and its drop list.
C5_Witness ==
    /\ dev = "panic:begin_frame"
    /\ ~NoRefHeld
    /\ frames[1].temp_top > 0
    /\ DropList_items(frames[1].drop_list) # <<>>

(***************************************************************************)
(* Claims about the Pool                                                   *)
(***************************************************************************)
Tracked == DOMAIN hstat
GetNone == [res |-> None, panic |-> FALSE]

\* C6 as stated: a handle returned by push is valid until remove(h), and
\* after remove(h) it is invalid (is_handle_valid false, get returns None)
\* in every later state, for any number of later push/remove cycles.
C6_StaleNeverValidAgain ==
    \A h \in Tracked :
        /\ hstat[h] = 0 => is_handle_valid(pool, h)
        /\ hstat[h] >= 1 => ~is_handle_valid(pool, h) /\ Pool_get(pool, h) = GetNone

\* C6 amended: a handle returned by push is valid (get returns the payloads
\* pushed) until remove(h); after remove(h) it is invalid, and get returns
\* None, as long as fewer than MAX_GENERATION removes have advanced the
\* generation of its index since h was issued.
C6_StaleInvalidUntilWrap ==
    \A h \in Tracked :
        /\ hstat[h] = 0 =>
              /\ is_handle_valid(pool, h)
              /\ Pool_get(pool, h) = [res |-> Some(hpay[h]), panic |-> FALSE]
        /\ (hstat[h] >= 1 /\ hstat[h] < MAX_GENERATION) =>
              /\ ~is_handle_valid(pool, h)
              /\ Pool_get(pool, h) = GetNone

\* a removed handle one remove short of the wrap-around whose index has
\* been reused by a later push
C6_Witness ==
    \E h \in Tracked : \E h2 \in Tracked :
        /\ hstat[h] = MAX_GENERATION - 1
        /\ hstat[h2] = 0
        /\ Handle_index(h2) = Handle_index(h)
        /\ h2 # h

Accessors == {"get", "get_hot", "get_cold", "replace", "replace_hot", "replace_cold", "remove"}

\* C7: no accessor panics, and whenever is_handle_valid(h) is true the slot
\* at h.index() holds both a hot and a cold payload.
C7_ValidHandleHasPayloads ==
    /\ \A h \in HandleInputs :
          is_handle_valid(pool, h) =>
              /\ InRange(pool.hot, Handle_index(h))
              /\ At(pool.hot, Handle_index(h)) # None
              /\ InRange(pool.cold, Handle_index(h))
              /\ At(pool.cold, Handle_index(h)) # None
    /\ last.panic => last.op \notin Accessors

Range(s) == {s[i] : i \in 1..Len(s)}

\* C8: after every Pool operation hot, cold and generations have equal
\* length, and an index is on the free-slot stack, exactly once, if and only
\* if both its hot and cold entries are empty.
C8_PoolShape ==
    ~pool_panic =>
        /\ Len(pool.hot) = Len(pool.generations)
        /\ Len(pool.cold) = Len(pool.generations)
        /\ \A i \in 0..(Len(pool.generations) - 1) :
              (i \in Range(pool.empty)) <=> (At(pool.hot, i) = None /\ At(pool.cold, i) = None)
        /\ \A i \in 1..Len(pool.empty) : \A j \in 1..Len(pool.empty) :
              pool.empty[i] = pool.empty[j] => i = j
        /\ \A i \in 1..Len(pool.empty) : pool.empty[i] < Len(pool.generations)

\* C9: remove(h) of a handle returned by push never panics; on a live handle
\* it returns the payloads stored for h; on a handle already removed it
\* returns None and leaves payloads, generations and the free stack unchanged.
C9_DoubleRemoveIsNoOp ==
    [][ (last'.op = "remove" /\ last'.h \in Tracked) =>
            /\ ~last'.panic
            /\ hstat[last'.h] = 0 => last'.res = Some(hpay[last'.h])
            /\ hstat[last'.h] >= 1 => (last'.res = None /\ pool' = pool) ]_vars

RECURSIVE SortedSeq(_)
SortedSeq(S) ==
    IF S = {} THEN <<>>
    ELSE LET m == CHOOSE x \in S : \A y \in S : x <= y
         IN  <<m>> \o SortedSeq(S \ {m})

LiveHandles == {h \in Tracked : hstat[h] = 0}
LiveIndices == SortedSeq({Handle_index(h) : h \in LiveHandles})
\* what the callers of push and remove know to be stored, by ascending index
ExpectedItems ==
    [k \in 1..Len(LiveIndices) |->
        hpay[CHOOSE h \in LiveHandles : Handle_index(h) = LiveIndices[k]]]

\* C10: iter() yields exactly the payloads of the occupied slots, each once,
\* in ascending index order, and as many as pushes minus successful removes.
C10_IterYieldsOccupied ==
    LET r == Pool_iter(pool)
    IN  /\ ~r.panic
        /\ r.items = ExpectedItems
        /\ Len(r.items) = pushed_count - removed_count

\* iter() has run over a pool whose slot 0 is vacant and slot 1 occupied
C10_Witness ==
    /\ last.op = "iter"
    /\ Len(pool.hot) = 2
    /\ pool.hot[1] = None
    /\ pool.hot[2] # None
    /\ last.res = <<hpay[CHOOSE h \in LiveHandles : Handle_index(h) = 1]>>
    /\ removed_count > 0

Drained == \E h \in Tracked : hstat[h] = -1

\* C11: after drain() the pool is empty and can be repopulated: iter()
\* yields nothing, every handle issued before the drain resolves to None in
\* every accessor without panicking, and a following push succeeds and
\* returns a handle for which get returns the pushed payloads.
C11_DrainThenRepopulate ==
    /\ (last.op = "drain" /\ ~last.panic) =>
          /\ Pool_iter(pool) = [items |-> <<>>, panic |-> FALSE]
          /\ \A h \in Tracked :
                /\ Pool_get(pool, h) = GetNone
                /\ Pool_get_hot(pool, h) = GetNone
                /\ Pool_get_cold(pool, h) = GetNone
                /\ \A v \in HotVals : \A w \in ColdVals :
                      /\ Pool_replace(pool, h, v, w) = [pool |-> pool, res |-> None, panic |-> FALSE]
                      /\ Pool_replace_hot(pool, h, v) = [pool |-> pool, res |-> None, panic |-> FALSE]
                      /\ Pool_replace_cold(pool, h, w) = [pool |-> pool, res |-> None, panic |-> FALSE]
                /\ Pool_remove(pool, h) = [pool |-> pool, res |-> None, panic |-> FALSE]
    /\ (last.op = "push" /\ Drained) =>
          /\ ~last.panic
          /\ Pool_get(pool, last.h) = [res |-> Some(hpay[last.h]), panic |-> FALSE]

(***************************************************************************)
(* Claims about the DynamicAllocator                                       *)
(***************************************************************************)
RECURSIVE SumSizes(_)
SumSizes(blocks) ==
    IF blocks = <<>> THEN 0 ELSE Head(blocks).size + SumSizes(Tail(blocks))

\* C12: the extent list tiles the region at all times: the extents are
\* ordered by offset, the first starts at 0, each starts where the previous
\* one ends, and the Free and Used sizes add up to the region size.
C12_ExtentsTileRegion ==
    LET blocks == dynamic.blocks
    IN  /\ blocks # <<>>
        /\ blocks[1].offset = 0
        /\ \A i \in 1..(Len(blocks) - 1) :
              /\ blocks[i + 1].offset = blocks[i].offset + blocks[i].size
              /\ blocks[i].offset <= blocks[i + 1].offset
        /\ \A i \in 1..Len(blocks) : blocks[i].tag \in {"Free", "Used"} /\ blocks[i].size >= 0
        /\ SumSizes(blocks) = dyn_hist.size

\* allocate and allocate_back have split Free extents and left a Free
\* extent between two Used ones
C12_Witness ==
    /\ call.op = "allocate_back"
    /\ ~call.panic
    /\ call.res # None
    /\ Len(dynamic.blocks) = 3
    /\ dynamic.blocks[1].tag = "Used" /\ dynamic.blocks[1].size > 0
    /\ dynamic.blocks[2].tag = "Free"
    /\ dynamic.blocks[3].tag = "Used" /\ dynamic.blocks[3].offset = Unwrap(call.res)
    /\ dynamic.blocks[3].size > 0

\* C13: after every deallocate (and allocate, allocate_back) the extent list
\* has no two adjacent Free extents; deallocate merges the freed extent with
\* the extents right before and right after it whenever they are Free.
C13_NoAdjacentFree ==
    LET blocks == dynamic.blocks
    IN  \A i \in 1..(Len(blocks) - 1) :
            ~(blocks[i].tag = "Free" /\ blocks[i + 1].tag = "Free")

\* deallocate has freed a Used extent lying between two Free extents, and
\* the three have become one
C13_Witness ==
    /\ call.op = "deallocate"
    /\ ~call.panic
    /\ \E i \in 1..(Len(call.pre.blocks) - 2) :
          /\ call.pre.blocks[i].tag = "Free" /\ call.pre.blocks[i].size > 0
          /\ call.pre.blocks[i + 1].size > 0
          /\ call.pre.blocks[i + 1] = Used(call.arg, call.pre.blocks[i + 1].size)
          /\ call.pre.blocks[i + 2].tag = "Free"
          /\ Len(dynamic.blocks) = Len(call.pre.blocks) - 2
          /\ dynamic.blocks[i] =
                Free(call.pre.blocks[i].offset,
                     call.pre.blocks[i].size + call.pre.blocks[i + 1].size
                        + call.pre.blocks[i + 2].size)

\* a Free extent of the list can hold size rounded up to the granularity
Fits(a, size) ==
    \E i \in 1..Len(a.blocks) :
        a.blocks[i].tag = "Free" /\ a.blocks[i].size >= align(size, a.granularity)

\* C14: whenever no Free extent can hold the request rounded up to the
\* granularity, allocate and allocate_back return None, leave the extent
\* list unchanged and do not panic.
C14_NoFitIsNone ==
    (call.op \in {"allocate", "allocate_back"} /\ ~Fits(call.pre, call.arg)) =>
        /\ ~call.panic
        /\ call.res = None
        /\ dynamic = call.pre

UsedAt(a, offset) ==
    {i \in 1..Len(a.blocks) : a.blocks[i].tag = "Used" /\ a.blocks[i].offset = offset}

\* the bytes of the region covered by Free extents
FreeBytes(a) ==
    UNION {a.blocks[i].offset..(a.blocks[i].offset + a.blocks[i].size - 1) :
              i \in {j \in 1..Len(a.blocks) : a.blocks[j].tag = "Free"}}

\* C15: deallocate(offset) panics exactly when no Used extent starts at
\* offset; deallocating the same offset twice without an allocation in
\* between that returned that offset panics on the second call; a
\* successful deallocate marks free exactly the extent at that offset.
C15_DeallocatePanicsOnDoubleFree ==
    [][ call'.op = "deallocate" =>
            /\ call'.panic <=> UsedAt(dynamic, call'.arg) = {}
            /\ call'.arg \in dyn_hist.freed => call'.panic
            /\ ~call'.panic =>
                  \E i \in UsedAt(dynamic, call'.arg) :
                     FreeBytes(dynamic') = FreeBytes(dynamic) \cup
                        (call'.arg..(call'.arg + dynamic.blocks[i].size - 1)) ]_vars

(***************************************************************************)
(* Claims about the BumpAllocator and the RingAllocator                    *)
(***************************************************************************)
\* the least multiple of a that is not below v
AlignUp(v, a) == ((v + a - 1) \div a) * a

\* index of the last reset in the trace, 0 when there is none
LastReset == SetMax({0} \cup {i \in 1..Len(trace) : trace[i][1] = "reset"})

\* the results a new BumpAllocator gives to the allocate calls of t
RECURSIVE Replay(_, _)
Replay(b, t) ==
    IF t = <<>> THEN <<>>
    ELSE LET r == BumpAllocator_allocate(b, Head(t)[2])
         IN  <<r.res>> \o Replay(r.alloc, Tail(t))

C18_PushTempBumpsCursor ==
    call.op = "push_temp" =>
        LET c == call.pre
            b == call.arg
            lo == (c % ALIGMENT) + b[2]
            units == (c \div ALIGMENT) + b[1] + (lo \div ALIGMENT)
            \* c + b rounded up to ALIGMENT, in units of ALIGMENT
            up == IF lo % ALIGMENT = 0 THEN units ELSE units + 1
        IN  /\ ~call.panic
            /\ IF up <= MAX_TEMP_MEMORY \div ALIGMENT
               THEN call.res = Some(c) /\ frames[1].temp_top = up * ALIGMENT
               ELSE call.res = None /\ frames[1].temp_top = c
            /\ call.res # None => Unwrap(call.res) % ALIGMENT = 0

(***************************************************************************)
(* Claims about the UniformStorage                                         *)
(***************************************************************************)
\* the strides of the size classes: 256, 512, ..., 16384
Strides == {MIN_UNIFORM_SIZE * k : k \in {1, 2, 4, 8, 16, 32, 64}}

\* the size class (from, to] that contains s, for 0 < s <= 16384
ClassOf(s) ==
    LET to == CHOOSE t \in Strides : s <= t /\ (t = MIN_UNIFORM_SIZE \/ s > t \div 2)
    IN  <<IF to = MIN_UNIFORM_SIZE THEN 0 ELSE to \div 2, to>>

\* the offsets pushed and not yet deallocated after the calls of t
RECURSIVE LiveAfter(_)
LiveAfter(t) ==
    IF t = <<>> THEN {}
    ELSE LET e == t[Len(t)]
             before == LiveAfter(SubSeq(t, 1, Len(t) - 1))
         IN  IF e[1] = "push"
             THEN (IF e[3] = None THEN before ELSE before \cup {Unwrap(e[3])})
             ELSE before \ {e[2]}

Live == LiveAfter(trace)
LiveBefore == LiveAfter(SubSeq(trace, 1, Len(trace) - 1))
InBucket(S, index) == {o \in S : o \div BUCKET_SIZE = index}

\* C19: push of a value of size s, 0 < s <= 16384, returns an offset in a
\* bucket whose size class (from, to] is the entry of the range table that
\* contains s, and the block has stride to: the offset is
\* bucket_index * BUCKET_SIZE + k * to, inside the bucket and not in use.
C19_PushUsesSizeClass ==
    (call.op = "uniform.push" /\ call.arg > 0 /\ call.arg <= MAX_UNIFORM_SIZE) =>
        /\ ~call.panic
        /\ call.res # None =>
              LET offset == Unwrap(call.res)
                  index == offset \div BUCKET_SIZE
                  local_offset == offset % BUCKET_SIZE
                  bucket == At(uniform_storage.buckets, index)
              IN  /\ InRange(uniform_storage.buckets, index)
                  /\ <<bucket.from, bucket.to>> = ClassOf(call.arg)
                  /\ bucket.from < call.arg /\ call.arg <= bucket.to
                  /\ local_offset % bucket.to = 0
                  /\ local_offset + bucket.to <= BUCKET_SIZE
                  /\ offset \notin LiveBefore
                  /\ (MIN_UNIFORM_SIZE < call.arg /\ call.arg <= 2 * MIN_UNIFORM_SIZE) =>
                        \E k \in 0..(BUCKET_SIZE \div 512) :
                            offset = index * BUCKET_SIZE + k * 512

\* a size of (256, 512] has got the second block of a bucket of stride 512
\* that is not the first bucket
C19_Witness ==
    /\ call.op = "uniform.push"
    /\ call.arg = MIN_UNIFORM_SIZE + 1
    /\ call.res = Some(BUCKET_SIZE + 512)

\* C20: when dealloc returns the last live block of a bucket the bucket is
\* released (its allocator dropped, its index pushed on the free-bucket
\* list), and a push that needs a new bucket, for any size class, takes a
\* released index before growing the bucket list.
C20_ReleasedBucketIsReused ==
    /\ (call.op = "uniform.dealloc" /\ ~call.panic) =>
          LET index == call.arg \div BUCKET_SIZE
          IN  IF InBucket(Live, index) = {}
              THEN /\ At(uniform_storage.buckets, index).allocator = None
                   /\ uniform_storage.free_buckets = Append(call.pre.free_buckets, index)
              ELSE /\ At(uniform_storage.buckets, index).allocator # None
                   /\ uniform_storage.free_buckets = call.pre.free_buckets
    /\ (call.op = "uniform.push" /\ ~call.panic /\ call.res # None
          /\ find_bucket_index(call.pre, call.arg) = None
          /\ call.pre.free_buckets # <<>>) =>
          LET index == Unwrap(call.res) \div BUCKET_SIZE
          IN  /\ index = Back(call.pre.free_buckets)
              /\ uniform_storage.free_buckets = Front(call.pre.free_buckets)
              /\ Len(uniform_storage.buckets) = Len(call.pre.buckets)
              /\ At(uniform_storage.buckets, index).allocator # None
              /\ At(uniform_storage.buckets, index).to = ClassOf(call.arg)[2]

\* bucket 0 served stride 256, was released by the dealloc of its last
\* block, and the next push, of another size class, got the same bytes
C20_Witness ==
    /\ Len(trace) = 3
    /\ trace[1] = <<"push", 1, Some(0)>>
    /\ trace[2] = <<"dealloc", 0, None>>
    /\ trace[3] = <<"push", MIN_UNIFORM_SIZE + 1, Some(0)>>
    /\ call.pre.free_buckets = <<0>>
    /\ Len(uniform_storage.buckets) = 1
    /\ uniform_storage.buckets[1].to = 2 * MIN_UNIFORM_SIZE

\* a bucket of the size class of s is initialized and has a free block
HasFreeBlock(u, s) ==
    \E i \in 1..Len(u.buckets) :
        /\ u.buckets[i].allocator # None
        /\ <<u.buckets[i].from, u.buckets[i].to>> = ClassOf(s)
        /\ u.buckets[i].free > 0

\* C21: push returns OutOfAllocatedSpace exactly when no initialized bucket
\* of the value's size class has a free block, no released bucket index is
\* available and BUCKET_COUNT buckets exist; a failed push leaves buckets
\* and free-bucket list unchanged and does not panic.
C21_PushFailsOnlyAtCap ==
    (call.op = "uniform.push" /\ call.arg > 0 /\ call.arg <= MAX_UNIFORM_SIZE) =>
        /\ ~call.panic
        /\ call.res = None <=>
              /\ ~HasFreeBlock(call.pre, call.arg)
              /\ call.pre.free_buckets = <<>>
              /\ Len(call.pre.buckets) = BUCKET_COUNT
        /\ call.res = None => uniform_storage = call.pre

\* a push of the smallest size class has failed although a bucket of
\* another size class had a free block
C21_Witness ==
    /\ call.op = "uniform.push"
    /\ call.arg = 1
    /\ call.res = None
    /\ Len(uniform_storage.buckets) = BUCKET_COUNT
    /\ \E i \in 1..Len(call.pre.buckets) : call.pre.buckets[i].free > 0

\* C22: dealloc(offset) for an offset that is not a live allocation (already
\* deallocated, never allocated, not on a block boundary of its bucket, or
\* in a released bucket) panics, and dealloc of a live allocation does not.
C22_DeallocOfDeadOffsetPanics ==
    call.op = "uniform.dealloc" => (call.panic <=> call.arg \notin LiveBefore)

\* dealloc has panicked on an offset that push had returned and an earlier
\* dealloc had taken back, in a bucket that still has a live block
C22_Witness ==
    /\ call.op = "uniform.dealloc"
    /\ call.panic
    /\ call.arg \in Returned
    /\ InBucket(Live, call.arg \div BUCKET_SIZE) # {}

\* the entries of a purge log that are of one kind, in order
OfKind(log, kind) == SelectSeq(log, LAMBDA x : x[1] = kind)

Untag(log) == [i \in 1..Len(log) |-> log[i][2]]

\* position of a kind in the order purge is said to destroy them
KindRank(kind) ==
    CASE kind = "image_view" -> 1
      [] kind = "image" -> 2
      [] kind = "buffer" -> 3
      [] kind = "memory" -> 4
      [] kind = "descriptor_set" -> 5
      [] kind = "uniform" -> 6

\* C23: a purge that returns has destroyed every queued item, each kind in
\* the order it was queued, and the kinds in the order image views, images,
\* buffers, memory blocks, descriptor sets, uniform offsets: no image before
\* a view of the same list, no memory block before an image or a buffer.
C23_PurgeOrderOfKinds ==
    (call.op = "purge" /\ ~call.panic) =>
        /\ \A i, j \in 1..Len(call.res) :
               i < j => KindRank(call.res[i][1]) <= KindRank(call.res[j][1])
        /\ Untag(OfKind(call.res, "image_view")) = call.pre.image_views_to_free
        /\ Untag(OfKind(call.res, "image")) = call.pre.images_to_free
        /\ Untag(OfKind(call.res, "buffer")) = call.pre.buffers_to_free
        /\ Untag(OfKind(call.res, "memory")) = call.pre.memory_to_free
        /\ Untag(OfKind(call.res, "descriptor_set")) = call.pre.descriptors_to_free
        /\ Untag(OfKind(call.res, "uniform")) = call.pre.uniforms_to_free

\* memory, an image and a view were queued in that order and a purge has
\* destroyed the view, then the image, then the memory block
C23_Witness ==
    /\ Len(trace) = 4
    /\ trace[1][1] = "free_memory"
    /\ trace[2][1] = "drop_image"
    /\ trace[3][1] = "drop_image_view"
    /\ call.op = "purge"
    /\ call.res = <<<<"image_view", DropItem>>, <<"image", DropItem>>,
                    <<"memory", DropItem>>>>

\* C24: after a purge that returns every vector of the list is empty; a
\* purge of an empty list (just purged, or never used) destroys nothing and
\* raises no error, so nothing queued once is destroyed by two purges.
C24_PurgeIsIdempotent ==
    /\ (call.op = "purge" /\ ~call.panic) => current_drop_list = DropList_default
    /\ (call.op = "purge" /\ call.pre = DropList_default) =>
           (call.res = <<>> /\ ~call.panic)
    /\ \A n \in 2..Len(trace) :
           (trace[n][1] = "purge" /\ trace[n - 1][1] = "purge") => trace[n][3] = <<>>

\* a purge that destroyed something is followed at once by a second purge
C24_Witness ==
    /\ Len(trace) >= 3
    /\ trace[Len(trace) - 1][1] = "purge"
    /\ trace[Len(trace) - 1][3] # <<>>
    /\ call.op = "purge"
    /\ call.res = <<>>
    /\ ~call.panic

\* the results one thread gets for the allocate calls of t, in order
RECURSIVE RingReplay(_, _)
RingReplay(r, t) ==
    IF t = <<>> THEN [res |-> <<>>, alloc |-> r]
    ELSE LET a == RingAllocator_allocate(r, Head(t)[2])
             rest == RingReplay(a.alloc, Tail(t))
         IN  [res |-> <<a.res>> \o rest.res, alloc |-> rest.alloc]

\* the head before the n-th call of the trace and the bytes it takes
HeadBefore(n) ==
    IF n = 1 THEN 0
    ELSE Unwrap(trace[n - 1][3]) + AlignUp(trace[n - 1][2], ring.aligment)

Wraps(n) == HeadBefore(n) + AlignUp(trace[n][2], ring.aligment) > ring.size

\* C25: for every interleaving of the loads and compare_exchanges of two
\* threads, the calls taken in the order of their successful
\* compare_exchange got the results one thread making them in that order
\* gets, the head is the head after those calls (each advanced it once), and
\* two calls with no wrap-around after the first up to the second got
\* disjoint ranges [offset, offset + aligned size).
C25_RingIsLinearizable ==
    LET seq == RingReplay(RingAllocator_new(ring.size, ring.aligment), trace)
    IN  /\ [n \in 1..Len(trace) |-> trace[n][3]] = seq.res
        /\ ring = seq.alloc
        /\ \A i, j \in 1..Len(trace) :
               (i < j /\ \A k \in (i + 1)..j : ~Wraps(k)) =>
                   Unwrap(trace[i][3]) + AlignUp(trace[i][2], ring.aligment)
                       <= Unwrap(trace[j][3])

\* a call lost a compare_exchange to the other thread, went round the loop
\* again and returned the range after the other thread's
C25_Witness ==
    /\ Len(trace) >= 2
    /\ trace[Len(trace)][5] >= 2
    /\ trace[Len(trace)][2] > 0
    /\ trace[Len(trace) - 1][2] > 0
    /\ trace[Len(trace) - 1][4] # trace[Len(trace)][4]
    /\ ~Wraps(Len(trace))
    /\ Unwrap(trace[Len(trace)][3])
           = Unwrap(trace[Len(trace) - 1][3]) + AlignUp(trace[Len(trace) - 1][2], ring.aligment)

\* the successful push_temp calls of the trace
TempOk == {n \in 1..Len(trace) : trace[n][3] # None}

\* start and end of the range of call n as <<units of ALIGMENT, bytes>>
TempStart(n) == <<Unwrap(trace[n][3]) \div ALIGMENT, Unwrap(trace[n][3]) % ALIGMENT>>

TempEnd(n) ==
    LET lo == TempStart(n)[2] + trace[n][2][2]
    IN  <<TempStart(n)[1] + trace[n][2][1] + (lo \div ALIGMENT), lo % ALIGMENT>>

PairLeq(a, b) == a[1] < b[1] \/ (a[1] = b[1] /\ a[2] <= b[2])

\* C26: in every interleaving of push_temp calls of two threads on one
\* frame with no reset in between, the ranges [offset, offset + bytes) of
\* the successful calls are pairwise disjoint and lie inside the 16 MiB
\* region, and a call that fails leaves the cursor as it found it.
C26_TempRangesDisjoint ==
    /\ \A n \in TempOk : PairLeq(TempEnd(n), <<MAX_TEMP_MEMORY \div ALIGMENT, 0>>)
    /\ \A m, n \in TempOk :
           (m # n /\ trace[m][2] # <<0, 0>> /\ trace[n][2] # <<0, 0>>) =>
               PairLeq(TempEnd(m), TempStart(n)) \/ PairLeq(TempEnd(n), TempStart(m))
    /\ (call.op = "push_temp" /\ call.res = None) => frames[1].temp_top = call.pre

\* the same for slices that fit the region
C26_SmallSlicesDisjoint ==
    (\A n \in 1..Len(trace) : PairLeq(trace[n][2], <<(MAX_TEMP_MEMORY \div ALIGMENT) + 1, 0>>))
        => C26_TempRangesDisjoint

(***************************************************************************)
(* Claims about the locks of the Device                                    *)
(***************************************************************************)
\* the order in which the locks are taken when several are held
LockRank(l) ==
    CASE l = "frames0" -> 1
      [] l = "frames1" -> 2
      [] l = "memory_allocator" -> 3
      [] l = "descriptor_allocator" -> 4
      [] l = "uniform_storage" -> 5
      [] l = "current_drop_list" -> 6
      [] l = "image_storage" -> 7
      [] l = "buffer_storage" -> 8

\* thread t is at a lock(), write() or read() that has not returned
Waiting(t) == Wants(pc[t], local[t]) # ""

Blocked(t) == Waiting(t) /\ ~CanAcquire(t)

\* a thread takes a lock only when it ranks above every lock it holds, and
\* no lock has two exclusive holders
LockOrder ==
    /\ \A t \in Threads :
           Waiting(t) => \A h \in Holds(pc[t], local[t]) :
                             LockRank(h) < LockRank(Wants(pc[t], local[t]))
    /\ \A t, u \in Threads :
           (t # u /\ ~(Shared(pc[t]) /\ Shared(pc[u]))) =>
               Holds(pc[t], local[t]) \cap Holds(pc[u], local[u]) = {}

\* C27: in every interleaving of begin_frame, end_frame, create_buffer,
\* create_image, destroy_buffer, destroy_image and get_buffer_desc from two
\* threads the locks are taken in one order (frames[0], frames[1], memory
\* allocator, descriptor allocator, uniform storage, current drop list; the
\* pool locks are taken alone), and with the GPU completing what is
\* submitted every thread that waits for a lock gets it.
C27_NoThreadWaitsForever ==
    /\ []LockOrder
    /\ \A t \in Threads : Waiting(t) ~> ~Waiting(t)

\* begin_frame holds four locks and waits for the current drop list, which
\* a destroy call of the other thread holds
C27_Witness ==
    /\ pc[1] = "bf:drop_list"
    /\ pc[2] = "ds:to_drop"
    /\ Blocked(1)

(***************************************************************************)
(* Claims about the frame cycle                                            *)
(***************************************************************************)
\* the items queued in a drop list
ItemsOf(dl) == {DropList_items(dl)[i] : i \in DOMAIN DropList_items(dl)}

TimesIn(d, x) == IF x \in DOMAIN d THEN d[x] ELSE 0

C29_BeginFrameEffects ==
    [][ (frame_count' # frame_count) =>
            /\ \A x \in ItemsOf(frames[1].drop_list) :
                   TimesIn(destroyed', x) = TimesIn(destroyed, x) + 1
            /\ \A x \in ItemsOf(current_drop_list) \ ItemsOf(frames[1].drop_list) :
                   TimesIn(destroyed', x) = TimesIn(destroyed, x)
            /\ frames'[1].id = frames[1].id
            /\ frames'[1].temp_top = 0
            /\ frames'[1].drop_list = current_drop_list
            /\ current_drop_list' = DropList_default
            /\ frames'[2].id = frames[2].id
            /\ frames'[2].drop_list = frames[2].drop_list
            /\ frames'[2].temp_top = frames[2].temp_top
            /\ \E t \in Threads : held[t] = "none" /\ held'[t] = "recording"
      ]_vars

\* begin_frame has returned a frame with a rewound cursor that took a
\* destroyed buffer from the current drop list, while the other frame
\* keeps the cursor its push_temp calls left
C29_Witness ==
    /\ \E t \in Threads : held[t] = "recording"
    /\ frames[1].temp_top = 0
    /\ ItemsOf(frames[1].drop_list) # {}
    /\ current_drop_list = DropList_default
    /\ frames[2].temp_top > 0

\* C30: end_frame exchanges the frames of slot 0 and slot 1; with
\* begin_frame and end_frame in strict alternation each begin_frame returns
\* the Frame that the begin_frame before the previous one returned and not
\* the one the previous returned, which is the Frame whose last use is
\* oldest.
C30_FramesAlternate ==
    [][ /\ (frame_count' # frame_count) =>
               /\ frames[1].id # frames[2].id
               /\ frames[1].no <= frames[2].no
               /\ frame_count >= 1 => frames[2].no = frame_count
               /\ frame_count >= 2 => frames[1].no = frame_count - 1
               /\ frames'[1].id = frames[1].id
               /\ frames'[1].no = frame_count'
        /\ \A t \in Threads :
               (pc[t] = "ef_swap" /\ pc'[t] = "idle") =>
                   /\ frames'[1] = frames[2]
                   /\ frames'[2] = frames[1]
      ]_vars

\* the third begin_frame has returned the Frame the first one returned
C30_Witness ==
    /\ frame_count = 3
    /\ frames[1].no = 3
    /\ frames[2].no = 2
    /\ frames[1].id = 1
    /\ \E t \in Threads : held[t] = "recording"

(***************************************************************************)
(* Claims about the blocks of the UniformStorage                           *)
(***************************************************************************)
\* the offsets live now: the block live at the start, unless a dealloc took
\* it, and the blocks pushed and not deallocated since
LiveNow ==
    ({EdgeOffset} \ {trace[i][2] : i \in {j \in 1..Len(trace) : trace[j][1] = "dealloc"}})
        \cup Live

\* the stride of the bucket that holds offset o
StrideAt(o) == At(uniform_storage.buckets, o \div BUCKET_SIZE).to

\* C31: in every state reached by push and dealloc calls that returned, the
\* live blocks [offset, offset + stride) are pairwise disjoint, and each
\* lies inside the byte range [i * BUCKET_SIZE, (i + 1) * BUCKET_SIZE) of
\* its own bucket i and inside the uniform buffer.
C31_LiveBlocksDisjointInBucket ==
    ~call.panic =>
        LET live == LiveNow
        IN  \A o \in live :
                LET index == o \div BUCKET_SIZE
                IN  /\ InRange(uniform_storage.buckets, index)
                    /\ At(uniform_storage.buckets, index).allocator # None
                    /\ StrideAt(o) \in Strides
                    /\ index * BUCKET_SIZE <= o
                    /\ o + StrideAt(o) <= (index + 1) * BUCKET_SIZE
                    /\ o + StrideAt(o) <= UNIFORM_BUFFER_SIZE
                    /\ \A p \in live \ {o} :
                           o + StrideAt(o) <= p \/ p + StrideAt(p) <= o

\* the last two blocks of the last bucket were handed out in the reverse
\* order of their return, while a block of another class lives in bucket 0
C31_Witness ==
    /\ call.op = "uniform.push"
    /\ call.res = Some(EdgeOffset + MAX_UNIFORM_SIZE)
    /\ EdgeOffset + 2 * MAX_UNIFORM_SIZE \in Live
    /\ 0 \in Live
    /\ StrideAt(0) = 2 * MIN_UNIFORM_SIZE

\* how often bucket index `index` is on the free-bucket list
TimesFree(u, index) ==
    Cardinality({i \in 1..Len(u.free_buckets) : u.free_buckets[i] = index})

\* C32: after every push and dealloc that returned, each initialized bucket
\* has allocated + free = BUCKET_SIZE / to, allocated >= 1 and allocated
\* equal to the number of its live blocks, and a bucket index is on the
\* free-bucket list, exactly once, if and only if the bucket has no
\* allocator.
C32_BucketCounters ==
    ~call.panic =>
        LET live == LiveNow
            u == uniform_storage
        IN  /\ \A index \in 0..(Len(u.buckets) - 1) :
                   LET bucket == At(u.buckets, index)
                   IN  IF bucket.allocator # None
                       THEN /\ bucket.allocated + bucket.free = BUCKET_SIZE \div bucket.to
                            /\ bucket.allocated >= 1
                            /\ bucket.allocated = Cardinality(InBucket(live, index))
                            /\ TimesFree(u, index) = 0
                       ELSE /\ TimesFree(u, index) = 1
                            /\ InBucket(live, index) = {}
            /\ \A i \in 1..Len(u.free_buckets) : InRange(u.buckets, u.free_buckets[i])

\* bucket 0 was taken from the free-bucket list and has gone back to it,
\* and the last bucket has given out a second block
C32_Witness ==
    /\ call.op = "uniform.dealloc"
    /\ ~call.panic
    /\ call.arg = 0
    /\ Back(uniform_storage.free_buckets) = 0
    /\ At(uniform_storage.buckets, BUCKET_COUNT - 1).allocated = 2
    /\ At(uniform_storage.buckets, BUCKET_COUNT - 1).free = 1

(***************************************************************************)
(* Claims about the extents of the DynamicAllocator                        *)
(***************************************************************************)
\* the allocations not deallocated: each allocate and allocate_back that
\* returned an offset has made one Used extent, and deallocate turns one
\* Used extent into a Free one
UsedExtents(a) == {i \in 1..Len(a.blocks) : a.blocks[i].tag = "Used"}

\* C33: for every sequence of allocate, allocate_back and deallocate and
\* every request size, 0 included, the allocations not deallocated have
\* pairwise distinct offsets, their extents [offset, offset + aligned size)
\* are pairwise disjoint and inside [0, region size), and deallocate(offset)
\* frees the extent of the allocation that returned offset.
C33_LiveExtentsDistinct ==
    LET blocks == dynamic.blocks
    IN  /\ \A i \in UsedExtents(dynamic) :
              /\ 0 <= blocks[i].offset
              /\ blocks[i].offset + blocks[i].size <= dyn_hist.size
        /\ \A i, j \in UsedExtents(dynamic) :
              i # j =>
                 /\ blocks[i].offset # blocks[j].offset
                 /\ \/ blocks[i].offset + blocks[i].size <= blocks[j].offset
                    \/ blocks[j].offset + blocks[j].size <= blocks[i].offset
        /\ (call.op \in {"allocate", "allocate_back"} /\ call.res # None) =>
              UsedAt(call.pre, Unwrap(call.res)) = {}
        /\ (call.op = "deallocate" /\ ~call.panic) =>
              /\ Cardinality(UsedAt(call.pre, call.arg)) = 1
              /\ \A i \in UsedAt(call.pre, call.arg) :
                    FreeBytes(dynamic) = FreeBytes(call.pre) \cup
                       (call.arg..(call.arg + call.pre.blocks[i].size - 1))

(***************************************************************************)
(* Claims about the ranges of the RingAllocator and of Frame::push_temp    *)
(***************************************************************************)
\* C34: for every capacity, alignment and request size <= capacity the
\* range RingAllocator::allocate returns lies inside the region, offset +
\* align(size, alignment) <= capacity, and the head never exceeds the
\* capacity, also when the capacity is not a multiple of the alignment.
C34_RingRangeInsideRegion ==
    /\ ring.head <= ring.size
    /\ (call.op = "ring.allocate" /\ call.arg <= ring.size) =>
          /\ ~call.panic
          /\ call.res # None
          /\ Unwrap(call.res) + AlignUp(call.arg, ring.aligment) <= ring.size

\* C35: with the u32 arithmetic of Frame::allocate wrapping and the cast of
\* the byte count truncating, a successful push_temp returns an offset with
\* offset + bytes <= 16 MiB and leaves the cursor at most 16 MiB and not
\* below its old value; a request that does not fit, sizes near and above
\* 2^32 included, fails with OutOfTempMemory.
C35_PushTempStaysInRegion ==
    call.op = "push_temp" =>
        LET c == call.pre
            b == call.arg
            lo == (c % ALIGMENT) + b[2]
            \* c + b as <<units of ALIGMENT, rest>>
            units == (c \div ALIGMENT) + b[1] + (lo \div ALIGMENT)
            rest == lo % ALIGMENT
            up == IF rest = 0 THEN units ELSE units + 1
        IN  /\ call.res # None =>
                  LET end == <<(Unwrap(call.res) \div ALIGMENT) + b[1]
                                  + (((Unwrap(call.res) % ALIGMENT) + b[2]) \div ALIGMENT),
                               ((Unwrap(call.res) % ALIGMENT) + b[2]) % ALIGMENT>>
                  IN  /\ PairLeq(end, <<MAX_TEMP_MEMORY \div ALIGMENT, 0>>)
                      /\ frames[1].temp_top <= MAX_TEMP_MEMORY
                      /\ frames[1].temp_top >= c
            /\ up > MAX_TEMP_MEMORY \div ALIGMENT => call.res = None

(***************************************************************************)
(* Claims about Pool::push and the iterator of a Pool                      *)
(***************************************************************************)
\* C36: push returns handle (i, g).  When the free-slot stack is not empty,
\* i is the most recently removed index that is still vacant and g is the
\* current generation of that slot, its generation at the removal plus one
\* modulo 2^12; otherwise i is the number of slots created so far and g is
\* 0.  Right after the push, get(handle) returns the payloads pushed and
\* the lookup result of no other handle has changed.
C36_PushReusesLastFreed ==
    [][ last'.op = "push" =>
          LET h == last'.h
              i == Handle_index(h)
              g == Handle_generation(h)
          IN  /\ ~last'.panic
              /\ IF pool.empty # <<>>
                 THEN /\ i = Back(pool.empty)
                      /\ At(pool.hot, i) = None
                      /\ g = At(pool.generations, i)
                      \* the generation has advanced once per remove
                      /\ \A x \in Tracked :
                            (Handle_index(x) = i /\ hstat[x] >= 1
                                /\ hstat[x] < MAX_GENERATION) =>
                               g = (Handle_generation(x) + hstat[x]) % MAX_GENERATION
                      \* a push right after a remove takes the slot just freed
                      /\ (last.op = "remove" /\ last.res # None) =>
                            /\ i = Handle_index(last.h)
                            /\ g = (Handle_generation(last.h) + 1) % MAX_GENERATION
                 ELSE /\ i = Len(pool.generations)
                      /\ g = 0
              /\ Pool_get(pool', h) = [res |-> Some(hpay'[h]), panic |-> FALSE]
              /\ \A x \in (Tracked \cup BogusHandles) \ {h} :
                    Pool_get(pool', x) = Pool_get(pool, x) ]_vars

\* two slots were freed, slot 1 first: the push has taken slot 0, freed
\* last, at generation 1, and slot 1 is still on the free-slot stack
C36_Witness ==
    /\ last.op = "push"
    /\ last.h = Handle_new(0, 1)
    /\ pool.empty = <<1>>
    /\ Handle_new(1, 0) \in Tracked
    /\ hstat[Handle_new(1, 0)] = 1

(***************************************************************************)
(* Claims about the fit of DynamicAllocator::allocate and allocate_back    *)
(***************************************************************************)
\* the Free extents of a that can hold `size` bytes
FreeFor(a, size) ==
    {i \in 1..Len(a.blocks) : a.blocks[i].tag = "Free" /\ a.blocks[i].size >= size}

\* the extent list with extent i replaced by the extents of `by`
Spliced(blocks, i, by) == SubSeq(blocks, 1, i - 1) \o by \o SubSeq(blocks, i + 1, Len(blocks))

\* allocate has taken the first n bytes of extent i of call.pre
TookFront(i, n) ==
    LET block == call.pre.blocks[i]
    IN  /\ ~call.panic
        /\ call.res = Some(block.offset)
        /\ dynamic.blocks =
              Spliced(call.pre.blocks, i,
                      IF block.size > n
                      THEN <<Used(block.offset, n), Free(block.offset + n, block.size - n)>>
                      ELSE <<Used(block.offset, n)>>)

\* allocate_back has taken the last n bytes of extent i of call.pre
TookBack(i, n) ==
    LET block == call.pre.blocks[i]
    IN  /\ ~call.panic
        /\ call.res # None
        /\ Unwrap(call.res) + n = block.offset + block.size
        /\ dynamic.blocks =
              Spliced(call.pre.blocks, i,
                      IF block.size > n
                      THEN <<Free(block.offset, block.size - n), Used(Unwrap(call.res), n)>>
                      ELSE <<Used(Unwrap(call.res), n)>>)

\* C37: allocate(size) is first-fit: it returns the start of the
\* lowest-offset Free extent whose size is >= size, marks exactly
\* align(size, granularity) bytes from that start Used and leaves the
\* remainder, if any, as one Free extent right after the Used one; all
\* other extents are unchanged.
C37_AllocateIsFirstFit ==
    (call.op = "allocate" /\ FreeFor(call.pre, call.arg) # {}) =>
        \E i \in FreeFor(call.pre, call.arg) :
            /\ \A j \in FreeFor(call.pre, call.arg) :
                  call.pre.blocks[i].offset <= call.pre.blocks[j].offset
            /\ TookFront(i, AlignUp(call.arg, dynamic.granularity))

\* the same whenever the extent found can hold the size rounded up to the
\* granularity: this part holds
C37_FirstFitOfAlignedSize ==
    (call.op = "allocate" /\ FreeFor(call.pre, call.arg) # {}) =>
        \E i \in FreeFor(call.pre, call.arg) :
            /\ \A j \in FreeFor(call.pre, call.arg) :
                  call.pre.blocks[i].offset <= call.pre.blocks[j].offset
            /\ IF call.pre.blocks[i].size >= AlignUp(call.arg, dynamic.granularity)
               THEN TookFront(i, AlignUp(call.arg, dynamic.granularity))
               ELSE call.panic

\* C38: allocate_back(size) is last-fit: it selects the highest-offset Free
\* extent whose size is >= size and allocates its last align(size,
\* granularity) bytes, so that the returned offset plus the aligned size is
\* the end of that extent, and the remainder, if any, stays as one Free
\* extent right before the Used one.
C38_AllocateBackIsLastFit ==
    (call.op = "allocate_back" /\ FreeFor(call.pre, call.arg) # {}) =>
        \E i \in FreeFor(call.pre, call.arg) :
            /\ \A j \in FreeFor(call.pre, call.arg) :
                  call.pre.blocks[j].offset <= call.pre.blocks[i].offset
            /\ TookBack(i, AlignUp(call.arg, dynamic.granularity))

\* the same whenever the extent found can hold the size rounded up to the
\* granularity: this part holds
C38_LastFitOfAlignedSize ==
    (call.op = "allocate_back" /\ FreeFor(call.pre, call.arg) # {}) =>
        \E i \in FreeFor(call.pre, call.arg) :
            /\ \A j \in FreeFor(call.pre, call.arg) :
                  call.pre.blocks[j].offset <= call.pre.blocks[i].offset
            /\ IF call.pre.blocks[i].size >= AlignUp(call.arg, dynamic.granularity)
               THEN TookBack(i, AlignUp(call.arg, dynamic.granularity))
               ELSE call.panic

(***************************************************************************)
(* Claims about BumpAllocator::allocate                                    *)
(***************************************************************************)
\* size bytes at offset lie inside the region of capacity cap (a size at
\* the top of usize, shown as a negative number, never does)
InsideRegion(offset, size, cap) == size >= 0 /\ offset + size <= cap

\* the successful allocate calls since the last reset
SinceReset ==
    {i \in (LastReset + 1)..Len(trace) : trace[i][1] = "allocate" /\ trace[i][3] # None}

\* C39: allocate(size) returns None exactly when align(top, alignment) +
\* size > capacity, and then leaves the cursor unchanged; every successful
\* allocate returns an offset that is a multiple of the alignment with
\* offset + size <= capacity, and the ranges returned between two resets are
\* pairwise disjoint.
C39_BumpAllocateNoneIffFull ==
    /\ call.op = "bump.allocate" =>
          LET base == AlignUp(call.pre.top, bump.aligment)
          IN  /\ ~call.panic
              /\ call.res = None <=> ~InsideRegion(base, call.arg, bump.size)
              /\ call.res = None => bump = call.pre
              /\ call.res # None =>
                    /\ call.res = Some(base)
                    /\ bump.top = base + call.arg
    /\ \A i \in SinceReset :
          /\ Unwrap(trace[i][3]) % bump.aligment = 0
          /\ InsideRegion(Unwrap(trace[i][3]), trace[i][2], bump.size)
    /\ \A i, j \in SinceReset :
          i < j => Unwrap(trace[i][3]) + trace[i][2] <= Unwrap(trace[j][3])

\* the same for sizes that do not make base + size overflow: this part
\* holds
C39_NoneIffFullBelowOverflow ==
    (\A i \in 1..Len(trace) : trace[i][2] >= 0) => C39_BumpAllocateNoneIffFull

(***************************************************************************)
(* Claims about Iter::size_hint                                            *)
(***************************************************************************)
\* the items next() will still yield: the occupied slots from current on
StillToYield(current) ==
    Cardinality({i \in current..(Len(pool.hot) - 1) : At(pool.hot, i) # None})

\* C40: at every point of an iteration over a Pool, with any pattern of
\* vacant slots, size_hint returns (n, Some(n)) where n is the number of
\* items next() will still yield, and its subtraction hot.len() -
\* empty.len() - current never underflows.
C40_SizeHintIsExact ==
    call.op = "iter.size_hint" =>
        /\ ~call.panic
        /\ call.res = Some(<<StillToYield(call.arg), Some(StillToYield(call.arg))>>)

\* the same while the iterator has passed no vacant slot: this part holds
C40_SizeHintExactBeforeGaps ==
    (\A i \in 0..(call.arg - 1) : At(pool.hot, i) # None) => C40_SizeHintIsExact

====
